---- MODULE Spec2Model ----
(***************************************************************************)
(* A model of the matching core of the trading-engine simulator:           *)
(* OrderBook (order_book.h / order_book.cpp) with its ObjectPool<Order>,   *)
(* TickSizeTable, RiskManager / CircuitBreaker and StopOrderManager.       *)
(*                                                                         *)
(* Orders live in pool slots; price levels, the id index and the stop      *)
(* buckets hold slot numbers (the Order* of the code), so a slot that is   *)
(* released while still referenced, or handed out twice, behaves here as   *)
(* it does in the code.  Every public call is one action.                  *)
(*                                                                         *)
(* Not modelled: Order::timestamp, parent_id and session_id, Trade::       *)
(* timestamp, the Stats counters, the trade pool (never used by matching)  *)
(* and SessionManager; none of them is read by the matching core.          *)
(***************************************************************************)
EXTENDS Integers, Sequences, FiniteSets, TLC

----------------------------------------------------------------------------
(* Bounds of the model *)

\* number of calls (add_order and cancel_order) in one behaviour
MaxCalls == 3

\* number of calls in a session of limit orders (SpecLimit)
MaxLimitCalls == 5

\* number of calls in a session of fill-or-kill orders (SpecFOK)
MaxFOKCalls == 5

\* number of calls in a session whose caller reuses ids (SpecDup)
MaxDupCalls == 4

\* number of calls in a session with stop orders (SpecStop)
MaxStopCalls == 6

\* number of calls in a session with orders the risk gate rejects (SpecRisk)
MaxRiskCalls == 7

\* number of calls in a session with prices around the breaker's band
\* (SpecBreaker)
MaxBreakerCalls == 5

\* number of calls in a session made twice, at two paces (SpecTwoRuns)
MaxTwoRunCalls == 4

\* max_orders_per_sec of the traders in SpecTwoRuns (1000 in main.cpp:12):
\* the per-second window fills after this many orders of one trader
ScaledOrdersPerSec == 2

\* number of calls in a session of rows with any disp and display_size
\* (SpecShapes)
MaxShapeCalls == 4

\* number of acquire and release calls made on the pool alone (SpecPool)
MaxPoolCalls == 7

\* number of calls in a session with stops on both sides (SpecBothStops)
MaxBothCalls == 5

\* number of calls in a session with orders that fail several risk checks
\* (SpecChecks)
MaxCheckCalls == 5

\* number of calls in a session whose calls are made at several paces
\* (SpecPace)
MaxPaceCalls == 5

\* number of calls made on a tick size table alone (SpecTicks)
MaxTickCalls == 3

\* number of calls in a session of traders with a small position limit
\* (SpecPosition)
MaxPositionCalls == 5

\* max_position of the traders in SpecPosition (100000 in main.cpp:7): the
\* largest position, long or short, a trader is to hold
ScaledMaxPosition == 2

\* slots the order pool is constructed with (2000000 in order_book.h:145);
\* the pool grows when it runs out, as in the code
InitialPoolSize == 3

\* iterations after which a matching loop that makes no progress is
\* reported as not terminating
MaxIter == 12

----------------------------------------------------------------------------
(* Program constants *)

MAX_CASCADE_DEPTH == 3
ONE_SECOND == 1000000000

\* setup_demo_risk_limits (main.cpp)
DEMO_MAX_POSITION == 100000
DEMO_MAX_ORDER_VALUE == 50000000
DEMO_MAX_ORDER_QTY == 10000
DEMO_DAILY_LOSS_LIMIT == 1000000
DEMO_MAX_ORDERS_PER_SEC == 1000
DEMO_MAX_DAILY_VOLUME == 1000000
DEMO_REFERENCE_PRICE == 100000

\* max_price_deviation = 0.10 and the breaker's percentage = 0.20, as ratios
DEMO_DEVIATION == <<1, 10>>
DEMO_BREAKER_PCT == <<20, 100>>

----------------------------------------------------------------------------
(* Generic helpers *)

Min(a, b) == IF a < b THEN a ELSE b

Abs(a) == IF a < 0 THEN -a ELSE a

\* C++ integer division truncates toward zero
CDiv(a, b) ==
    IF (a >= 0) = (b > 0) THEN Abs(a) \div Abs(b) ELSE -(Abs(a) \div Abs(b))

SetMax(S) == CHOOSE x \in S : \A y \in S : y <= x

SetMin(S) == CHOOSE x \in S : \A y \in S : x <= y

\* a std::map / unordered_map as a function whose DOMAIN is the key set
EmptyMap == << >>

MapPut(f, k, v) == [x \in (DOMAIN f) \cup {k} |-> IF x = k THEN v ELSE f[x]]

MapDel(f, k) == [x \in (DOMAIN f) \ {k} |-> f[x]]

\* the keys of S in ascending order
RECURSIVE SortedSeq(_)
SortedSeq(S) ==
    IF S = {} THEN << >>
    ELSE LET m == SetMin(S) IN <<m>> \o SortedSeq(S \ {m})

\* sequence q without its element at index i
RemoveAt(q, i) == [j \in 1..(Len(q) - 1) |-> IF j < i THEN q[j] ELSE q[j + 1]]

\* index of the first occurrence of x in q, 0 when absent (std::find)
FindIndex(q, x) ==
    IF \E i \in 1..Len(q) : q[i] = x
    THEN CHOOSE i \in 1..Len(q) : q[i] = x /\ \A j \in 1..(i - 1) : q[j] # x
    ELSE 0

\* q without the first occurrence of x
EraseFirst(q, x) ==
    LET i == FindIndex(q, x) IN IF i = 0 THEN q ELSE RemoveAt(q, i)

SeqToSet(q) == {q[i] : i \in 1..Len(q)}

----------------------------------------------------------------------------
(* types.h *)

Sides == {"BUY", "SELL"}

OrderTypes == {"GTC", "IOC", "FOK", "MARKET", "STOP_LOSS", "ICEBERG"}

\* Order::Order(): the default-constructed slot of the pool
DefaultOrder ==
    [id |-> 0, side |-> "BUY", price |-> 0, stop_price |-> 0, quantity |-> 0,
     remaining |-> 0, display |-> 0, display_size |-> 0, type |-> "GTC",
     ownerID |-> 0, is_triggered |-> FALSE, is_market_maker |-> FALSE]

\* Order::Order(id, side, price, stop_price, qty, disp, display_size, type,
\* ownerID): remaining starts at qty, display at disp.  The constructor
\* leaves is_market_maker uninitialised; mm is the value the build reads.
NewOrder(id, side, price, stop_price, qty, disp, display_size, type, ownerID, mm) ==
    [id |-> id, side |-> side, price |-> price, stop_price |-> stop_price,
     quantity |-> qty, remaining |-> qty, display |-> disp,
     display_size |-> display_size, type |-> type, ownerID |-> ownerID,
     is_triggered |-> FALSE, is_market_maker |-> mm]

----------------------------------------------------------------------------
(* tick_table.h *)

\* the largest Price.  Price is int64_t (types.h 23); the model keeps
\* prices in 32 bits, so that LLONG_MAX is 2^31 - 1 and a sum beyond it
\* is an overflow, as it is for the 64-bit prices of the code
LLONG_MAX == 2147483647

\* TickSizeTable::TickSizeTable(): the default bands <<min, max, tick>>,
\* in the order the constructor adds them
DefaultRules ==
    << <<1, 99, 1>>, <<100, 999, 1>>, <<1000, 4999, 1>>, <<5000, 9999, 1>>,
       <<10000, 99999, 1>>, <<100000, 499999, 5>>, <<500000, 999999, 10>>,
       <<1000000, LLONG_MAX, 100>> >>

RuleMatches(rule, price) ==
    rule[1] <= price /\ rule[2] >= price

\* TickSizeTable::round_to_tick over a rule table
RoundWith(rules, price) ==
    IF price <= 0 THEN 0
    ELSE IF \E i \in 1..Len(rules) : RuleMatches(rules[i], price)
    THEN LET i == CHOOSE k \in 1..Len(rules) :
                      /\ RuleMatches(rules[k], price)
                      /\ \A j \in 1..(k - 1) : ~RuleMatches(rules[j], price)
             tick == rules[i][3]
             half_tick == tick \div 2
         IN ((price + half_tick) \div tick) * tick
    ELSE 0

round_to_tick(price) == RoundWith(DefaultRules, price)

\* std::sort by min_price of a set of rules; rules that passed add_rule's
\* overlap test have distinct min_price
RECURSIVE SortRules(_)
SortRules(S) ==
    IF S = {} THEN << >>
    ELSE LET r == CHOOSE x \in S : \A y \in S : x[1] <= y[1]
         IN <<r>> \o SortRules(S \ {r})

\* TickSizeTable::add_rule without the sort.  BandsSortedAndDisjoint does
\* not survive it.
add_rule_unsorted(rules, min_price, max_price, tick_size) ==
    IF min_price > max_price \/ tick_size <= 0 \/ min_price < 0
    THEN [rules |-> rules, threw |-> TRUE]
    ELSE IF \E i \in 1..Len(rules) :
                ~(max_price < rules[i][1] \/ min_price > rules[i][2])
    THEN [rules |-> rules, threw |-> TRUE]
    ELSE [rules |-> Append(rules, <<min_price, max_price, tick_size>>),
          threw |-> FALSE]

\* TickSizeTable::add_rule: the table after the call and whether the call
\* threw std::invalid_argument
add_rule(rules, min_price, max_price, tick_size) ==
    IF min_price > max_price \/ tick_size <= 0 \/ min_price < 0
    THEN [rules |-> rules, threw |-> TRUE]
    ELSE IF \E i \in 1..Len(rules) :
                ~(max_price < rules[i][1] \/ min_price > rules[i][2])
    THEN [rules |-> rules, threw |-> TRUE]
    ELSE [rules |-> SortRules(SeqToSet(rules)
                               \cup {<<min_price, max_price, tick_size>>}),
          threw |-> FALSE]

\* the tick of the first rule whose band holds price, 0 when there is none
\* (TickSizeTable::get_tick_size)
get_tick_size(rules, price) ==
    IF price <= 0 THEN 0
    ELSE IF \E i \in 1..Len(rules) : RuleMatches(rules[i], price)
    THEN rules[CHOOSE k \in 1..Len(rules) :
                  /\ RuleMatches(rules[k], price)
                  /\ \A j \in 1..(k - 1) : ~RuleMatches(rules[j], price)][3]
    ELSE 0

\* price + half_tick of round_to_tick is beyond LLONG_MAX: a signed
\* overflow, which is undefined
RoundOverflows(rules, price) ==
    /\ get_tick_size(rules, price) > 0
    /\ price > LLONG_MAX - (get_tick_size(rules, price) \div 2)

\* the values round_to_tick(price) can return on the table rules.  When
\* the sum overflows and wraps around it is price + half_tick - 2^32
RoundOutcomes(rules, price) ==
    LET tick == get_tick_size(rules, price)
        sum == ((price - LLONG_MAX) + ((tick \div 2) - LLONG_MAX)) - 2
    IN IF RoundOverflows(rules, price) THEN {CDiv(sum, tick) * tick}
       ELSE {RoundWith(rules, price)}

----------------------------------------------------------------------------
(* object_pool.h, ObjectPool<Order> *)

\* reset_order: side, type and is_market_maker are not reset
reset_order(o) ==
    [o EXCEPT !.id = 0, !.price = 0, !.stop_price = 0, !.quantity = 0,
              !.remaining = 0, !.display = 0, !.display_size = 0,
              !.ownerID = 0, !.is_triggered = FALSE]

\* acquire: pops the free stack (its top is the last element), or grows the
\* pool by one object when the stack is empty.  Yields the state and the slot.
acquire(s) ==
    IF s.available_ = << >>
    THEN [s |-> [s EXCEPT !.pool_ = Append(@, DefaultOrder),
                          !.allocated_count_ = @ + 1],
          ptr |-> Len(s.pool_) + 1]
    ELSE [s |-> [s EXCEPT !.available_ = SubSeq(@, 1, Len(@) - 1),
                          !.allocated_count_ = @ + 1],
          ptr |-> s.available_[Len(s.available_)]]

\* release: a pointer that is null or not in valid_objects_ (here: not a
\* slot number) is ignored.  Every slot of the pool is in valid_objects_, so
\* for a slot that is the only test the code makes and it passes; the slot
\* is reset and pushed, whether or not it is currently issued.
\* allocated_count_ is a size_t: a value below 0 here stands for the
\* wrapped value 2^64 + allocated_count_.
release(s, ptr) ==
    IF ptr \notin 1..Len(s.pool_) THEN s
    ELSE [s EXCEPT !.pool_[ptr] = reset_order(@),
                   !.available_ = Append(@, ptr),
                   !.allocated_count_ = @ - 1]

----------------------------------------------------------------------------
(* order_book.h, PriceLevel *)

EmptyLevel == [mm_orders |-> << >>, regular_orders |-> << >>]

PriceLevel_empty(level) == level.mm_orders = << >> /\ level.regular_orders = << >>

\* front(): only called on a level that is not empty
PriceLevel_front(level) ==
    IF level.mm_orders # << >> THEN Head(level.mm_orders)
    ELSE Head(level.regular_orders)

PriceLevel_pop_front(level) ==
    IF level.mm_orders # << >> THEN [level EXCEPT !.mm_orders = Tail(@)]
    ELSE [level EXCEPT !.regular_orders = Tail(@)]

\* add_order(order): mm is order->is_market_maker
PriceLevel_add_order(level, ptr, mm) ==
    IF mm THEN [level EXCEPT !.mm_orders = Append(@, ptr)]
    ELSE [level EXCEPT !.regular_orders = Append(@, ptr)]

PriceLevel_erase(level, ptr) ==
    IF FindIndex(level.mm_orders, ptr) # 0
    THEN [level EXCEPT !.mm_orders = EraseFirst(@, ptr)]
    ELSE [level EXCEPT !.regular_orders = EraseFirst(@, ptr)]

----------------------------------------------------------------------------
(* risk_manager.h *)

ZeroPosition ==
    [quantity |-> 0, unrealized_pnl |-> 0, realized_pnl |-> 0,
     avg_price |-> 0, daily_volume |-> 0]

\* positions_[trader]: operator[] inserts a zero Position when the key is new
TouchPosition(s, trader) ==
    IF trader \in DOMAIN s.positions_ THEN s
    ELSE [s EXCEPT !.positions_ = MapPut(@, trader, ZeroPosition)]

\* CircuitBreaker::set_limits; the products are exact for the demo values
set_limits(reference, pct) ==
    [upper_limit_ |-> CDiv(reference * (pct[2] + pct[1]), pct[2]),
     lower_limit_ |-> CDiv(reference * (pct[2] - pct[1]), pct[2]),
     is_triggered_ |-> FALSE]

\* CircuitBreaker::should_halt_trading: true only on the transition
should_halt_trading(s, price) ==
    LET cb == s.circuit_breaker_ IN
    IF (price >= cb.upper_limit_ \/ price <= cb.lower_limit_) /\ ~cb.is_triggered_
    THEN [s |-> [s EXCEPT !.circuit_breaker_.is_triggered_ = TRUE], halt |-> TRUE]
    ELSE [s |-> s, halt |-> FALSE]

\* the timestamps left after the pops of is_rate_limited's while loop
RECURSIVE PruneWindow(_, _)
PruneWindow(q, now) ==
    IF q # << >> /\ (now - Head(q)) > ONE_SECOND THEN PruneWindow(Tail(q), now)
    ELSE q

\* is_rate_limited with the window tested for more than max_orders_per_sec
\* timestamps.  RateWindowAdmits does not survive it.
is_rate_limited_one_more(s, trader) ==
    IF trader \notin DOMAIN s.trader_limits_ THEN [s |-> s, limited |-> TRUE]
    ELSE
      LET q0 == IF trader \in DOMAIN s.rate_limits_ THEN s.rate_limits_[trader]
                ELSE << >>
          q1 == PruneWindow(q0, s.clock)
      IN IF Len(q1) > s.trader_limits_[trader].max_orders_per_sec
         THEN [s |-> [s EXCEPT !.rate_limits_ = MapPut(@, trader, q1)],
               limited |-> TRUE]
         ELSE [s |-> [s EXCEPT !.rate_limits_ = MapPut(@, trader, Append(q1, s.clock))],
               limited |-> FALSE]

\* RiskManager::is_rate_limited; s.clock is the value now() returns
is_rate_limited(s, trader) ==
    IF trader \notin DOMAIN s.trader_limits_ THEN [s |-> s, limited |-> TRUE]
    ELSE
      LET q0 == IF trader \in DOMAIN s.rate_limits_ THEN s.rate_limits_[trader]
                ELSE << >>
          q1 == PruneWindow(q0, s.clock)
      IN IF Len(q1) >= s.trader_limits_[trader].max_orders_per_sec
         THEN [s |-> [s EXCEPT !.rate_limits_ = MapPut(@, trader, q1)],
               limited |-> TRUE]
         ELSE [s |-> [s EXCEPT !.rate_limits_ = MapPut(@, trader, Append(q1, s.clock))],
               limited |-> FALSE]

\* |price - last| / double(last) > max_price_deviation, the deviation num/den
DeviationExceeds(price, last, dev) ==
    Abs(price - last) * dev[2] > last * dev[1]

\* check_order with the order quantity and order value checks made before
\* the position limit check.  ChecksInFixedOrder does not survive it.
check_order_size_first(s, ptr) ==
    LET order == s.pool_[ptr] IN
    IF order.type = "STOP_LOSS" THEN [s |-> s, result |-> "APPROVED"]
    ELSE
      LET s1 == TouchPosition(s, order.ownerID)
          pos == s1.positions_[order.ownerID]
      IN
      IF order.ownerID \notin DOMAIN s1.trader_limits_
      THEN [s |-> s1, result |-> "REJECTED_POSITION_LIMIT"]
      ELSE
        LET limit == s1.trader_limits_[order.ownerID]
            newpos == IF order.side = "BUY" THEN pos.quantity + order.quantity
                      ELSE pos.quantity - order.quantity
        IN
        IF order.quantity > limit.max_order_qty
        THEN [s |-> s1, result |-> "REJECTED_ORDER_SIZE"]
        ELSE IF order.price * order.quantity > limit.max_order_value
        THEN [s |-> s1, result |-> "REJECTED_ORDER_SIZE"]
        ELSE IF Abs(newpos) > limit.max_position
        THEN [s |-> s1, result |-> "REJECTED_POSITION_LIMIT"]
        ELSE IF /\ s1.last_trade_price_ > 0
                /\ order.price > 0
                /\ DeviationExceeds(order.price, s1.last_trade_price_,
                                    limit.max_price_deviation)
        THEN [s |-> s1, result |-> "REJECTED_FAT_FINGER"]
        ELSE IF pos.realized_pnl + pos.unrealized_pnl < -limit.daily_loss_limit
        THEN [s |-> s1, result |-> "REJECTED_LOSS_LIMIT"]
        ELSE
          LET rl == is_rate_limited(s1, order.ownerID) IN
          IF rl.limited THEN [s |-> rl.s, result |-> "REJECTED_RATE_LIMIT"]
          ELSE
            LET cb == should_halt_trading(rl.s, order.price) IN
            IF cb.halt THEN [s |-> cb.s, result |-> "REJECTED_CIRCUIT_BREAKER"]
            ELSE [s |-> cb.s, result |-> "APPROVED"]

\* RiskManager::check_order on the order in slot ptr
check_order(s, ptr) ==
    LET order == s.pool_[ptr] IN
    IF order.type = "STOP_LOSS" THEN [s |-> s, result |-> "APPROVED"]
    ELSE
      LET s1 == TouchPosition(s, order.ownerID)
          pos == s1.positions_[order.ownerID]
      IN
      IF order.ownerID \notin DOMAIN s1.trader_limits_
      THEN [s |-> s1, result |-> "REJECTED_POSITION_LIMIT"]
      ELSE
        LET limit == s1.trader_limits_[order.ownerID]
            newpos == IF order.side = "BUY" THEN pos.quantity + order.quantity
                      ELSE pos.quantity - order.quantity
        IN
        IF Abs(newpos) > limit.max_position
        THEN [s |-> s1, result |-> "REJECTED_POSITION_LIMIT"]
        ELSE IF order.quantity > limit.max_order_qty
        THEN [s |-> s1, result |-> "REJECTED_ORDER_SIZE"]
        ELSE IF order.price * order.quantity > limit.max_order_value
        THEN [s |-> s1, result |-> "REJECTED_ORDER_SIZE"]
        ELSE IF /\ s1.last_trade_price_ > 0
                /\ order.price > 0
                /\ DeviationExceeds(order.price, s1.last_trade_price_,
                                    limit.max_price_deviation)
        THEN [s |-> s1, result |-> "REJECTED_FAT_FINGER"]
        ELSE IF pos.realized_pnl + pos.unrealized_pnl < -limit.daily_loss_limit
        THEN [s |-> s1, result |-> "REJECTED_LOSS_LIMIT"]
        ELSE
          LET rl == is_rate_limited(s1, order.ownerID) IN
          IF rl.limited THEN [s |-> rl.s, result |-> "REJECTED_RATE_LIMIT"]
          ELSE
            LET cb == should_halt_trading(rl.s, order.price) IN
            IF cb.halt THEN [s |-> cb.s, result |-> "REJECTED_CIRCUIT_BREAKER"]
            ELSE [s |-> cb.s, result |-> "APPROVED"]

\* update_position adding the quantity of a trade to the seller's position
\* too.  PositionsBalanced does not survive it.
update_position_adding(s, trader_id, trade, trader_side) ==
    LET s1 == TouchPosition(s, trader_id)
        pos == s1.positions_[trader_id]
        q == pos.quantity
        tq == trade.quantity
        tp == trade.price
        bought ==
            IF q = 0 THEN [pos EXCEPT !.avg_price = tp]
            ELSE IF q > 0
            THEN [pos EXCEPT !.avg_price =
                    IF q + tq = 0 THEN 0
                    ELSE CDiv(q * pos.avg_price + tp * tq, q + tq)]
            ELSE [pos EXCEPT
                    !.realized_pnl = @ + (pos.avg_price - tp) * Min(-q, tq),
                    !.avg_price = IF tq > -q THEN tp ELSE @]
        sold ==
            IF q = 0 THEN [pos EXCEPT !.avg_price = tp]
            ELSE IF q < 0
            THEN [pos EXCEPT !.avg_price =
                    IF (-q) + tq = 0 THEN 0
                    ELSE CDiv((-q) * pos.avg_price + tq * tp, (-q) + tq)]
            ELSE [pos EXCEPT
                    !.realized_pnl = @ + (tp - pos.avg_price) * Min(q, tq),
                    !.avg_price = IF tq > q THEN tp ELSE @]
        moved == IF trader_side = "BUY"
                 THEN [bought EXCEPT !.quantity = @ + tq]
                 ELSE [sold EXCEPT !.quantity = @ + tq]
        final == [moved EXCEPT !.daily_volume = @ + tq]
        divides_by_zero ==
            \/ trader_side = "BUY" /\ q > 0 /\ q + tq = 0
            \/ trader_side = "SELL" /\ q < 0 /\ (-q) + tq = 0
    IN [s1 EXCEPT !.positions_[trader_id] = final, !.last_trade_price_ = tp,
                  !.ub = @ \/ divides_by_zero]

\* RiskManager::update_position.  A trade of negative quantity (a stale
\* level entry whose display went below zero) can make the divisor of the
\* average price zero: the integer division is undefined, the build either
\* traps (the process dies) or goes on with a quotient, taken as 0 here.
update_position(s, trader_id, trade, trader_side) ==
    LET s1 == TouchPosition(s, trader_id)
        pos == s1.positions_[trader_id]
        q == pos.quantity
        tq == trade.quantity
        tp == trade.price
        bought ==
            IF q = 0 THEN [pos EXCEPT !.avg_price = tp]
            ELSE IF q > 0
            THEN [pos EXCEPT !.avg_price =
                    IF q + tq = 0 THEN 0
                    ELSE CDiv(q * pos.avg_price + tp * tq, q + tq)]
            ELSE [pos EXCEPT
                    !.realized_pnl = @ + (pos.avg_price - tp) * Min(-q, tq),
                    !.avg_price = IF tq > -q THEN tp ELSE @]
        sold ==
            IF q = 0 THEN [pos EXCEPT !.avg_price = tp]
            ELSE IF q < 0
            THEN [pos EXCEPT !.avg_price =
                    IF (-q) + tq = 0 THEN 0
                    ELSE CDiv((-q) * pos.avg_price + tq * tp, (-q) + tq)]
            ELSE [pos EXCEPT
                    !.realized_pnl = @ + (tp - pos.avg_price) * Min(q, tq),
                    !.avg_price = IF tq > q THEN tp ELSE @]
        moved == IF trader_side = "BUY"
                 THEN [bought EXCEPT !.quantity = @ + tq]
                 ELSE [sold EXCEPT !.quantity = @ - tq]
        final == [moved EXCEPT !.daily_volume = @ + tq]
        divides_by_zero ==
            \/ trader_side = "BUY" /\ q > 0 /\ q + tq = 0
            \/ trader_side = "SELL" /\ q < 0 /\ (-q) + tq = 0
    IN [s1 EXCEPT !.positions_[trader_id] = final, !.last_trade_price_ = tp,
                  !.ub = @ \/ divides_by_zero]

\* RiskManager::set_trader_limits (valid limits)
set_trader_limits(s, trader_id, limits) ==
    [s EXCEPT
       !.trader_limits_ = MapPut(@, trader_id, limits),
       !.positions_ = IF trader_id \in DOMAIN @ THEN @
                      ELSE MapPut(@, trader_id, ZeroPosition),
       !.rate_limits_ = IF trader_id \in DOMAIN @ THEN @
                        ELSE MapPut(@, trader_id, << >>)]

\* RiskManager::mark_to_market
mark_to_market(s, current_price) ==
    IF current_price <= 0 THEN s
    ELSE
      LET ps == s.positions_
          s1 == [s EXCEPT
                   !.positions_ =
                      [t \in DOMAIN ps |->
                         IF ps[t].quantity # 0
                         THEN [ps[t] EXCEPT !.unrealized_pnl =
                                 (current_price - ps[t].avg_price) * ps[t].quantity]
                         ELSE ps[t]],
                   !.last_trade_price_ = current_price]
      IN should_halt_trading(s1, current_price).s

----------------------------------------------------------------------------
(* stop_manager.h *)

StopsOf(s, side) == IF side = "BUY" THEN s.buy_stops_ ELSE s.sell_stops_

SetStops(s, side, m) ==
    IF side = "BUY" THEN [s EXCEPT !.buy_stops_ = m] ELSE [s EXCEPT !.sell_stops_ = m]

\* map[key] on a price -> bucket map: an absent key reads as an empty bucket
BucketAt(m, key) == IF key \in DOMAIN m THEN m[key] ELSE << >>

\* StopOrderManager::add_stop_order
add_stop_order(s, ptr) ==
    LET order == s.pool_[ptr] IN
    IF order.type # "STOP_LOSS" THEN s
    ELSE
      LET m == StopsOf(s, order.side)
          s1 == SetStops(s, order.side,
                         MapPut(m, order.stop_price,
                                Append(BucketAt(m, order.stop_price), ptr)))
      IN [s1 EXCEPT !.stop_lookup_ = MapPut(@, order.id, ptr)]

\* StopOrderManager::remove_stop_order
remove_stop_order(s, order_id) ==
    IF order_id \notin DOMAIN s.stop_lookup_ THEN s
    ELSE
      LET ptr == s.stop_lookup_[order_id]
          order == s.pool_[ptr]
          m == StopsOf(s, order.side)
          bucket == EraseFirst(BucketAt(m, order.stop_price), ptr)
          m1 == IF bucket = << >> THEN MapDel(m, order.stop_price)
                ELSE MapPut(m, order.stop_price, bucket)
          s1 == SetStops(s, order.side, m1)
      IN [s1 EXCEPT !.stop_lookup_ = MapDel(@, order_id)]

\* the buckets of map m at the given keys, concatenated in ascending key order
RECURSIVE ConcatBuckets(_, _)
ConcatBuckets(m, keys) ==
    IF keys = << >> THEN << >>
    ELSE m[Head(keys)] \o ConcatBuckets(m, Tail(keys))

\* StopOrderManager::check_triggered_stops: buy stops with key <= price
\* (begin .. upper_bound), then sell stops with key >= price (lower_bound ..
\* end), both walked in ascending key order
check_triggered_stops(s, last_trade_price) ==
    LET buyKeys == {k \in DOMAIN s.buy_stops_ : k <= last_trade_price}
        sellKeys == {k \in DOMAIN s.sell_stops_ : k >= last_trade_price}
        triggered == ConcatBuckets(s.buy_stops_, SortedSeq(buyKeys))
                     \o ConcatBuckets(s.sell_stops_, SortedSeq(sellKeys))
        ids == {s.pool_[triggered[i]].id : i \in 1..Len(triggered)}
    IN [s |-> [s EXCEPT
                 !.buy_stops_ = [k \in (DOMAIN @) \ buyKeys |-> @[k]],
                 !.sell_stops_ = [k \in (DOMAIN @) \ sellKeys |-> @[k]],
                 !.stop_lookup_ = [i \in (DOMAIN @) \ ids |-> @[i]]],
        triggered |-> triggered]

----------------------------------------------------------------------------
(* order_book.h / order_book.cpp, OrderBook *)

OppositeSide(side) == IF side = "BUY" THEN "SELL" ELSE "BUY"

\* bids_ for BUY, asks_ for SELL
BookOf(s, side) == IF side = "BUY" THEN s.bids_ ELSE s.asks_

SetBook(s, side, book) ==
    IF side = "BUY" THEN [s EXCEPT !.bids_ = book] ELSE [s EXCEPT !.asks_ = book]

\* begin() of a side with the orders of the two maps exchanged.
\* NeverCrossedOrLocked does not survive it.
BestKey_last(s, side) ==
    IF side = "BUY" THEN SetMin(DOMAIN s.bids_) ELSE SetMax(DOMAIN s.asks_)

\* begin() of a side: bids_ is ordered by greater<Price>, asks_ by less<Price>
BestKey(s, side) ==
    IF side = "BUY" THEN SetMax(DOMAIN s.bids_) ELSE SetMin(DOMAIN s.asks_)

\* map[price] on a book side: an absent key reads as a new empty level
LevelAt(book, price) == IF price \in DOMAIN book THEN book[price] ELSE EmptyLevel

\* every slot queued anywhere on a side, and on either side
SlotsOnSide(s, side) ==
    UNION {SeqToSet(BookOf(s, side)[p].mm_orders)
             \cup SeqToSet(BookOf(s, side)[p].regular_orders) :
           p \in DOMAIN BookOf(s, side)}

\* observation of the book at the moment of a match, recorded with the
\* trade: is another order of an owner other than the aggressor's queued on
\* the passive's side at a strictly better price with display > 0, and is
\* one queued ahead of the passive in the passive's own sublist
BetterQueued(s, aggressive, passive) ==
    LET a == s.pool_[aggressive]
        p == s.pool_[passive]
        side == OppositeSide(a.side)
    IN \E q \in SlotsOnSide(s, side) :
          /\ q # passive
          /\ s.pool_[q].ownerID # a.ownerID
          /\ s.pool_[q].display > 0
          /\ IF a.side = "BUY" THEN s.pool_[q].price < p.price
             ELSE s.pool_[q].price > p.price

AheadQueued(s, aggressive, passive) ==
    LET a == s.pool_[aggressive]
        book == BookOf(s, OppositeSide(a.side))
        ahead(q) == \E j \in 1..Len(q) :
                       /\ q[j] = passive
                       /\ \E i \in 1..(j - 1) :
                            /\ q[i] # passive
                            /\ s.pool_[q[i]].ownerID # a.ownerID
                            /\ s.pool_[q[i]].display > 0
    IN \E k \in DOMAIN book : ahead(book[k].mm_orders) \/ ahead(book[k].regular_orders)

\* SameOwner without the comparison: no passive order is ever taken for the
\* aggressor's own.  OwnersDiffer does not survive it.
SameOwnerNever(s, ptr, passive) == FALSE

\* the comparison order->ownerID == passive->ownerID of the matching paths
\* (order_book.cpp 95, 135, 245, 284, 324)
SameOwner(s, ptr, passive) == s.pool_[ptr].ownerID = s.pool_[passive].ownerID

\* execute_trade pricing the trade at the aggressor's price field.
\* TradeAtPassivePrice does not survive it.
execute_trade_at_aggressor(s, aggressive, passive, qty) ==
    LET a == s.pool_[aggressive]
        p == s.pool_[passive]
        trade == [buy_id |-> IF a.side = "BUY" THEN a.id ELSE p.id,
                  sell_id |-> IF a.side = "SELL" THEN a.id ELSE p.id,
                  price |-> a.price,
                  quantity |-> qty]
        buyer_id == IF a.side = "BUY" THEN a.ownerID ELSE p.ownerID
        seller_id == IF a.side = "SELL" THEN a.ownerID ELSE p.ownerID
        s1 == update_position(s, buyer_id, trade, "BUY")
    IN [s |-> update_position(s1, seller_id, trade, "SELL"), trade |-> trade]

\* OrderBook::execute_trade: builds the trade at the passive order's price
\* and updates both traders' positions.  Yields the state and the Trade.
execute_trade(s, aggressive, passive, qty) ==
    LET a == s.pool_[aggressive]
        p == s.pool_[passive]
        trade == [buy_id |-> IF a.side = "BUY" THEN a.id ELSE p.id,
                  sell_id |-> IF a.side = "SELL" THEN a.id ELSE p.id,
                  price |-> p.price,
                  quantity |-> qty]
        buyer_id == IF a.side = "BUY" THEN a.ownerID ELSE p.ownerID
        seller_id == IF a.side = "SELL" THEN a.ownerID ELSE p.ownerID
        s1 == update_position(s, buyer_id, trade, "BUY")
    IN [s |-> update_position(s1, seller_id, trade, "SELL"), trade |-> trade]

AddFilled(f, id, qty) == MapPut(f, id, (IF id \in DOMAIN f THEN f[id] ELSE 0) + qty)

\* A match as the matching paths make it: execute_trade on the state s.
\* The trade is recorded together with what the two orders and the book
\* looked like at that moment (path: "limit", "market", "fok" or "stop";
\* stop_no: 0 for a match of the incoming order, k for a match of the k-th
\* stop the call executes); these extra fields are observations, not part
\* of the code's Trade.
Match(s, aggressive, passive, qty, path) ==
    LET a == s.pool_[aggressive]
        p == s.pool_[passive]
        Seen(et, seen) ==
            [s |-> [et.s EXCEPT
                      !.filled = AddFilled(AddFilled(@, a.id, qty), p.id, qty),
                      !.ntrades = @ + 1],
             trade |-> [f \in (DOMAIN et.trade) \cup (DOMAIN seen) |->
                          IF f \in DOMAIN et.trade THEN et.trade[f] ELSE seen[f]]]
    IN Seen(execute_trade(s, aggressive, passive, qty),
            [seq |-> s.ntrades + 1, path |-> path,
             stop_no |-> Len(s.executed_stops),
             aggr_id |-> a.id, aggr_side |-> a.side, aggr_type |-> a.type,
             aggr_owner |-> a.ownerID, aggr_price |-> a.price,
             pass_id |-> p.id, pass_owner |-> p.ownerID,
             pass_price |-> p.price, pass_display |-> p.display,
             better |-> BetterQueued(s, aggressive, passive),
             ahead |-> AheadQueued(s, aggressive, passive)])

\* observation made right after a refill: does the slot stand, in some
\* sublist of its side, before an entry that is another order
StandsBeforeOther(s, side, ptr) ==
    LET book == BookOf(s, side)
        before(q) == \E i \in 1..Len(q) : \E j \in (i + 1)..Len(q) :
                        q[i] = ptr /\ q[j] # ptr
    IN \E k \in DOMAIN book :
          before(book[k].mm_orders) \/ before(book[k].regular_orders)

\* OrderBook::handle_iceberg_refill on the level at key of the given side.
\* The refilled order is appended to the sublist its is_market_maker picks.
handle_iceberg_refill(s, ptr, side, key) ==
    LET order == s.pool_[ptr] IN
    IF order.type = "ICEBERG" /\ order.remaining > 0
    THEN LET display == Min(order.remaining, order.display_size)
             book == BookOf(s, side)
             level == PriceLevel_add_order(LevelAt(book, key), ptr,
                                           order.is_market_maker)
             s1 == [s EXCEPT !.pool_[ptr].display = display,
                             !.pool_[ptr].remaining = @ - display]
             s2 == SetBook(s1, side, MapPut(book, key, level))
         IN [s |-> [s2 EXCEPT !.refills = Append(@,
                        [id |-> order.id, after |-> s.ntrades,
                         display |-> display,
                         before_other |-> StandsBeforeOther(s2, side, ptr)])],
             refilled |-> TRUE]
    ELSE [s |-> s, refilled |-> FALSE]

\* OrderBook::cleanup_empty_level
cleanup_empty_level(s, side, price) ==
    LET book == BookOf(s, side) IN
    IF price \in DOMAIN book /\ PriceLevel_empty(book[price])
    THEN SetBook(s, side, MapDel(book, price))
    ELSE s

\* OrderBook::cancel_order.  The level is looked up by the order's price
\* field on the order's side.
cancel_order(s, id) ==
    IF id \notin DOMAIN s.orders_ THEN [s |-> s, found |-> FALSE]
    ELSE
      LET ptr == s.orders_[id]
          order == s.pool_[ptr]
          s1 == IF order.type = "STOP_LOSS" THEN remove_stop_order(s, id)
                ELSE
                  LET book == BookOf(s, order.side) IN
                  IF order.price \in DOMAIN book
                  THEN LET level == PriceLevel_erase(book[order.price], ptr) IN
                       IF PriceLevel_empty(level)
                       THEN SetBook(s, order.side, MapDel(book, order.price))
                       ELSE SetBook(s, order.side, MapPut(book, order.price, level))
                  ELSE s
          s2 == [s1 EXCEPT !.orders_ = MapDel(@, id)]
      IN [s |-> release(s2, ptr), found |-> TRUE]

\* the passive order's display reached 0 in a matching loop: it was popped
\* from the front of the level at key; refill it or drop it from the index
\* and release it (order_book.cpp 109-118, 260-269)
AfterPassiveFilled(s, passive, side, key) ==
    LET p == s.pool_[passive]
        Refilled(rf) ==
            IF rf.refilled THEN rf.s
            ELSE release([s EXCEPT !.orders_ = MapDel(@, p.id),
                                   !.released = Append(@,
                                      [id |-> p.id, type |-> p.type,
                                       quantity |-> p.quantity,
                                       filled |-> IF p.id \in DOMAIN s.filled
                                                  THEN s.filled[p.id] ELSE 0])],
                         passive)
    IN Refilled(handle_iceberg_refill(s, passive, side, key))

\* the inner while loop of the matching paths (order_book.cpp 92-119,
\* 132-159, 242-270, 281-309) on the level at best_price of the side
\* opposite to side.  path is "limit" for add_order's loop and "market" or
\* "stop" for add_market_order's; they differ in the self-trade branch.
\* In the limit path cancel_order may erase the very level the loop holds
\* a reference to; the loop condition then reads a destroyed PriceLevel.
\* That read is recorded in s.ub and taken as "empty" here; the other
\* outcome, the process dying, is the second disjunct of AddOrderCall.
RECURSIVE MatchLevel(_, _, _, _, _, _, _)
MatchLevel(s, trades, ptr, side, best_price, path, fuel) ==
    LET opp == OppositeSide(side)
        book == BookOf(s, opp)
        level == book[best_price]
        done == [s |-> s, trades |-> trades, fuel |-> fuel]
    IN
    IF ~(s.pool_[ptr].display > 0 /\ ~PriceLevel_empty(level)) THEN done
    ELSE IF fuel = 0 THEN [done EXCEPT !.s.hang = TRUE]
    ELSE
      LET passive == PriceLevel_front(level)
          popped == SetBook(s, opp, MapPut(book, best_price, PriceLevel_pop_front(level)))
      IN
      IF SameOwner(s, ptr, passive)
      THEN
        LET pid == s.pool_[passive].id
            Removed(s1) ==
                IF best_price \notin DOMAIN BookOf(s1, opp)
                THEN [s |-> [s1 EXCEPT !.ub = TRUE], trades |-> trades,
                      fuel |-> fuel]
                ELSE MatchLevel(s1, trades, ptr, side, best_price, path, fuel - 1)
        IN Removed([(IF path = "limit" THEN cancel_order(popped, pid).s
                     ELSE release([popped EXCEPT !.orders_ = MapDel(@, pid)],
                                  passive))
                    EXCEPT !.stp = Append(@, pid)])
      ELSE
        LET match_qty == Min(s.pool_[ptr].display, s.pool_[passive].display)
            Reduced(d, trade) ==
                MatchLevel(IF d.pool_[passive].display = 0
                           THEN AfterPassiveFilled(
                                  SetBook(d, opp, MapPut(book, best_price,
                                                         PriceLevel_pop_front(level))),
                                  passive, opp, best_price)
                           ELSE d,
                           Append(trades, trade), ptr, side, best_price, path,
                           fuel - 1)
            Traded(et) ==
                Reduced([et.s EXCEPT !.pool_[ptr].display = @ - match_qty,
                                     !.pool_[passive].display = @ - match_qty,
                                     !.pool_[passive].remaining = @ - match_qty],
                        et.trade)
        IN Traded(Match(s, ptr, passive, match_qty, path))

\* the outer while loop of the matching paths (order_book.cpp 86-121,
\* 126-161, 238-272, 277-311).  price is add_order's price parameter, as
\* passed by the caller; only the limit path tests it.
RECURSIVE MatchBook(_, _, _, _, _, _, _)
MatchBook(s, trades, ptr, side, price, path, fuel) ==
    LET opp == OppositeSide(side)
        book == BookOf(s, opp)
    IN
    IF ~(s.pool_[ptr].display > 0 /\ DOMAIN book # {})
    THEN [s |-> s, trades |-> trades]
    ELSE
      LET best_price == BestKey(s, opp)
          LevelDone(r) ==
              IF r.s.hang THEN [s |-> r.s, trades |-> r.trades]
              ELSE MatchBook(cleanup_empty_level(r.s, opp, best_price), r.trades,
                             ptr, side, price, path, r.fuel)
      IN
      IF path = "limit" /\ (IF side = "BUY" THEN price < best_price
                            ELSE price > best_price)
      THEN [s |-> s, trades |-> trades]
      ELSE LevelDone(MatchLevel(s, trades, ptr, side, best_price, path, fuel))

\* OrderBook::add_market_order on the order in slot ptr
add_market_order(s, ptr, path) ==
    MatchBook(s, << >>, ptr, s.pool_[ptr].side, 0, path, MaxIter)

\* the check_orders lambda of add_FOK_order over one sublist
RECURSIVE check_orders(_, _, _, _, _)
check_orders(s, ptr, orders, needed, candidates) ==
    IF orders = << >>
    THEN [needed |-> needed, candidates |-> candidates, result |-> FALSE]
    ELSE
      LET passive == Head(orders) IN
      IF SameOwner(s, ptr, passive)
      THEN check_orders(s, ptr, Tail(orders), needed, candidates)
      ELSE
        LET available == Min(needed, s.pool_[passive].display)
            c2 == Append(candidates, <<passive, available>>)
            n2 == needed - available
        IN IF n2 <= 0
           THEN [needed |-> n2, candidates |-> c2, result |-> TRUE]
           ELSE check_orders(s, ptr, Tail(orders), n2, c2)

\* the probe of add_FOK_order (order_book.cpp 338-367); keys are the
\* opposite side's level keys in iteration order
RECURSIVE ProbeLevels(_, _, _, _, _)
ProbeLevels(s, ptr, keys, needed, candidates) ==
    IF keys = << >> THEN [needed |-> needed, candidates |-> candidates]
    ELSE
      LET order == s.pool_[ptr]
          price_level == Head(keys)
          level == BookOf(s, OppositeSide(order.side))[price_level]
      IN
      IF IF order.side = "BUY" THEN price_level > order.price
         ELSE price_level < order.price
      THEN [needed |-> needed, candidates |-> candidates]
      ELSE
        LET r1 == check_orders(s, ptr, level.mm_orders, needed, candidates)
            r2 == IF ~r1.result /\ r1.needed > 0
                  THEN check_orders(s, ptr, level.regular_orders, r1.needed,
                                    r1.candidates)
                  ELSE r1
        IN IF r2.needed <= 0
           THEN [needed |-> r2.needed, candidates |-> r2.candidates]
           ELSE ProbeLevels(s, ptr, Tail(keys), r2.needed, r2.candidates)

Reverse(q) == [i \in 1..Len(q) |-> q[Len(q) + 1 - i]]

\* iteration order of a side: bids_ descending, asks_ ascending
KeysInOrder(s, side) ==
    IF side = "BUY" THEN Reverse(SortedSeq(DOMAIN s.bids_))
    ELSE SortedSeq(DOMAIN s.asks_)

\* the commit loop of add_FOK_order (order_book.cpp 373-406).  The level is
\* map[passive->price] of the passive's side, created when absent; after a
\* release the final erase reads the passive's reset price.
RECURSIVE CommitFOK(_, _, _, _)
CommitFOK(s, trades, ptr, candidates) ==
    IF candidates = << >> THEN [s |-> s, trades |-> trades]
    ELSE
      LET passive == Head(candidates)[1]
          qty == Head(candidates)[2]
          Dropped(s3, side, key) ==
              IF PriceLevel_empty(BookOf(s3, side)[key])
              THEN SetBook(s3, s3.pool_[passive].side,
                           MapDel(BookOf(s3, s3.pool_[passive].side),
                                  s3.pool_[passive].price))
              ELSE s3
          Erased(d, side, key, book) ==
              Dropped(AfterPassiveFilled(
                        SetBook(d, side,
                                MapPut(book, key,
                                       PriceLevel_erase(LevelAt(book, key), passive))),
                        passive, side, key),
                      side, key)
          Reduced(d, trade) ==
              CommitFOK(IF d.pool_[passive].display = 0
                        THEN Erased(d, d.pool_[passive].side, d.pool_[passive].price,
                                    BookOf(d, d.pool_[passive].side))
                        ELSE d,
                        Append(trades, trade), ptr, Tail(candidates))
          Traded(et) ==
              Reduced([et.s EXCEPT !.pool_[passive].display = @ - qty,
                                   !.pool_[passive].remaining = @ - qty,
                                   !.pool_[ptr].display = @ - qty,
                                   !.pool_[ptr].remaining = @ - qty],
                      et.trade)
      IN Traded(Match(s, ptr, passive, qty, "fok"))

\* OrderBook::add_FOK_order
add_FOK_order(s, ptr) ==
    LET order == s.pool_[ptr]
        Committed(c) == [s |-> c.s, trades |-> c.trades, filled |-> TRUE]
        Probed(probe) ==
            IF probe.needed > 0 THEN [s |-> s, trades |-> << >>, filled |-> FALSE]
            ELSE Committed(CommitFOK(s, << >>, ptr, probe.candidates))
    IN Probed(ProbeLevels(s, ptr, KeysInOrder(s, OppositeSide(order.side)),
                          order.quantity, << >>))

\* the for loop of process_triggered_stops (order_book.cpp 206-230).  The
\* final processing_stops_.erase reads the id of the released slot.
RECURSIVE RunStops(_, _, _)
RunStops(s, trades, stops) ==
    IF stops = << >> \/ s.hang THEN [s |-> s, trades |-> trades]
    ELSE
      LET stop_order == Head(stops)
          id == s.pool_[stop_order].id
          Released(s3) ==
              [s3 EXCEPT !.processing_stops_ = @ \ {s3.pool_[stop_order].id},
                         !.stop_cascade_depth_ = @ - 1]
          Executed(m) ==
              IF m.s.hang THEN [s |-> m.s, trades |-> trades \o m.trades]
              ELSE RunStops(
                     Released(release(
                       [m.s EXCEPT !.orders_ = MapDel(@, m.s.pool_[stop_order].id)],
                       stop_order)),
                     trades \o m.trades, Tail(stops))
      IN
      IF id \in s.processing_stops_ THEN RunStops(s, trades, Tail(stops))
      ELSE Executed(add_market_order(
                      [s EXCEPT !.processing_stops_ = @ \cup {id},
                                !.stop_cascade_depth_ = @ + 1,
                                !.pool_[stop_order].type = "MARKET",
                                !.pool_[stop_order].price = 0,
                                !.pool_[stop_order].is_triggered = TRUE,
                                !.executed_stops = Append(@, id)],
                      stop_order, "stop"))

\* the stops' trades inserted at the front of the list instead of its end.
\* ProducedInOrder does not survive it.
process_triggered_stops_front(s, trades) ==
    LET Inserted(r) == [s |-> r.s, trades |-> r.trades \o trades]
        Triggered(ct) == Inserted(RunStops(ct.s, << >>, ct.triggered))
    IN
    IF trades = << >> THEN [s |-> s, trades |-> trades]
    ELSE IF s.stop_cascade_depth_ >= MAX_CASCADE_DEPTH
    THEN [s |-> s, trades |-> trades]
    ELSE Triggered(check_triggered_stops(s, trades[Len(trades)].price))

\* OrderBook::process_triggered_stops
process_triggered_stops(s, trades) ==
    LET Triggered(ct) == RunStops(ct.s, trades, ct.triggered) IN
    IF trades = << >> THEN [s |-> s, trades |-> trades]
    ELSE IF s.stop_cascade_depth_ >= MAX_CASCADE_DEPTH
    THEN [s |-> s, trades |-> trades]
    ELSE Triggered(check_triggered_stops(s, trades[Len(trades)].price))

\* the price normalisation of add_order (order_book.cpp 23-38)
Normalize(p) ==
    IF p > 0 THEN (LET r == round_to_tick(p) IN IF r > 0 THEN r ELSE p) ELSE p

\* an order put on the book whatever its type.  NonRestingTypesGone does
\* not survive it.
RestsOnBookAnyType(order, type) == order.display > 0

\* the condition under which add_order rests what is left of the order
\* (order_book.cpp 165)
RestsOnBook(order, type) ==
    order.display > 0 /\ (type = "GTC" \/ type = "ICEBERG")

\* OrderBook::add_order.  mm is the value read for the order's
\* is_market_maker.  Yields the state, the returned trades and the risk
\* gate's verdict.
add_order(s, id, side, price, qty, disp, display_size, type, ownerID, stop_price, mm) ==
    LET normalized ==
            [NewOrder(id, side, price, stop_price, qty, disp, display_size,
                      type, ownerID, mm)
             EXCEPT !.price = IF type # "MARKET" THEN Normalize(price) ELSE price,
                    !.stop_price = Normalize(stop_price)]
        Returned(ps, risk) == [s |-> ps.s, trades |-> ps.trades, risk |-> risk]
        \* the FOK path
        FOKDone(f, order_ptr, risk) ==
            Returned(process_triggered_stops(release(f.s, order_ptr), f.trades),
                     risk)
        \* the MARKET path
        MarketDone(m, order_ptr, risk) ==
            IF m.s.hang THEN Returned(m, risk)
            ELSE Returned(process_triggered_stops(release(m.s, order_ptr),
                                                  m.trades),
                          risk)
        \* the limit path: rest what is left of a GTC or ICEBERG order at
        \* the price parameter, release anything else
        Rest(ms, order_ptr) ==
            IF RestsOnBook(ms.pool_[order_ptr], type)
            THEN [SetBook(ms, side,
                          MapPut(BookOf(ms, side), price,
                                 PriceLevel_add_order(
                                   LevelAt(BookOf(ms, side), price), order_ptr,
                                   ms.pool_[order_ptr].is_market_maker)))
                  EXCEPT !.orders_ = MapPut(@, id, order_ptr)]
            ELSE release(ms, order_ptr)
        LimitDone(m, order_ptr, risk) ==
            IF m.s.hang THEN Returned(m, risk)
            ELSE Returned(process_triggered_stops(Rest(m.s, order_ptr), m.trades),
                          risk)
        Checked(rc, order_ptr) ==
            IF rc.result # "APPROVED"
            THEN [s |-> release(rc.s, order_ptr), trades |-> << >>,
                  risk |-> rc.result]
            ELSE IF type = "STOP_LOSS"
            THEN [s |-> [add_stop_order(rc.s, order_ptr) EXCEPT
                           !.orders_ = MapPut(@, id, order_ptr)],
                  trades |-> << >>, risk |-> rc.result]
            ELSE IF type = "FOK"
            THEN FOKDone(add_FOK_order(rc.s, order_ptr), order_ptr, rc.result)
            ELSE IF type = "MARKET"
            THEN MarketDone(add_market_order(rc.s, order_ptr, "market"),
                            order_ptr, rc.result)
            ELSE LimitDone(MatchBook(rc.s, << >>, order_ptr, side, price, "limit",
                                     MaxIter),
                           order_ptr, rc.result)
        Acquired(a) ==
            Checked(check_order([a.s EXCEPT !.pool_[a.ptr] = normalized], a.ptr),
                    a.ptr)
    IN Acquired(acquire(s))

----------------------------------------------------------------------------
(* The state: the members of OrderBook and of the objects it owns *)

VARIABLES
    pool_,                 \* ObjectPool<Order>::pool_: the slots, by number
    available_,            \* ObjectPool<Order>::available_, top last
    allocated_count_,      \* ObjectPool<Order>::allocated_count_
    bids_, asks_,          \* OrderBook: price -> PriceLevel
    orders_,               \* OrderBook: the id index, id -> slot
    processing_stops_,     \* OrderBook::processing_stops_
    stop_cascade_depth_,   \* OrderBook::stop_cascade_depth_
    buy_stops_, sell_stops_, stop_lookup_,   \* StopOrderManager
    positions_, trader_limits_, rate_limits_, last_trade_price_,  \* RiskManager
    circuit_breaker_,      \* RiskManager::circuit_breaker_
    clock,                 \* the value high_resolution_clock::now() returned last
    calls,                 \* calls made so far
    halted,                \* "none", or how the process stopped: "crash", "hang"
    filled,                \* id -> total quantity of the trades naming it
    trades,                \* the trade list the last call returned
    last,                  \* the last call: its arguments and what it did
    twin,                  \* a second run of the same calls made at other
                           \* times (SpecTwoRuns): its state and the trade
                           \* list its last call returned
    rules_                 \* TickSizeTable::rules_; the book never adds a
                           \* rule to the table its constructor fills

vars == <<pool_, available_, allocated_count_, bids_, asks_, orders_,
          processing_stops_, stop_cascade_depth_, buy_stops_, sell_stops_,
          stop_lookup_, positions_, trader_limits_, rate_limits_,
          last_trade_price_, circuit_breaker_, clock, calls, halted, filled,
          trades, last, twin, rules_>>

\* the program state as one record, with the per-call observations cleared
State ==
    [pool_ |-> pool_, available_ |-> available_,
     allocated_count_ |-> allocated_count_, bids_ |-> bids_, asks_ |-> asks_,
     orders_ |-> orders_, processing_stops_ |-> processing_stops_,
     stop_cascade_depth_ |-> stop_cascade_depth_, buy_stops_ |-> buy_stops_,
     sell_stops_ |-> sell_stops_, stop_lookup_ |-> stop_lookup_,
     positions_ |-> positions_, trader_limits_ |-> trader_limits_,
     rate_limits_ |-> rate_limits_, last_trade_price_ |-> last_trade_price_,
     circuit_breaker_ |-> circuit_breaker_, clock |-> clock, filled |-> filled,
     ntrades |-> 0, released |-> << >>, refills |-> << >>,
     executed_stops |-> << >>, stp |-> << >>, ub |-> FALSE, hang |-> FALSE]

\* the variables take the values of the record s
Becomes(s) ==
    /\ pool_' = s.pool_
    /\ available_' = s.available_
    /\ allocated_count_' = s.allocated_count_
    /\ bids_' = s.bids_
    /\ asks_' = s.asks_
    /\ orders_' = s.orders_
    /\ processing_stops_' = s.processing_stops_
    /\ stop_cascade_depth_' = s.stop_cascade_depth_
    /\ buy_stops_' = s.buy_stops_
    /\ sell_stops_' = s.sell_stops_
    /\ stop_lookup_' = s.stop_lookup_
    /\ positions_' = s.positions_
    /\ trader_limits_' = s.trader_limits_
    /\ rate_limits_' = s.rate_limits_
    /\ last_trade_price_' = s.last_trade_price_
    /\ circuit_breaker_' = s.circuit_breaker_
    /\ clock' = s.clock
    /\ filled' = s.filled

----------------------------------------------------------------------------
(* The callers' inputs *)

Traders == {1, 2}

\* caller prices in the band whose tick is 5: 100003 is not on a tick
Prices == {100000, 100003}

StopPrices == {100000, 100005}

Qtys == {1, 2}

\* <<quantity, disp, display_size>> of the iceberg orders
IcebergShapes == {<<3, 1, 1>>}

\* nanoseconds between two calls
TimeSteps == {1}

Arg(side, price, qty, disp, display_size, type, ownerID, stop_price, mm) ==
    [side |-> side, price |-> price, qty |-> qty, disp |-> disp,
     display_size |-> display_size, type |-> type, ownerID |-> ownerID,
     stop_price |-> stop_price, mm |-> mm]

\* The rows a caller sends (market_data.cpp 79-186): disp = display_size =
\* quantity except for icebergs, price 0 for MARKET, a stop price only for
\* STOP_LOSS.  is_market_maker is read uninitialised by the build; it is
\* only ever looked at for an order that rests, so it ranges over BOOLEAN
\* for GTC and ICEBERG.
OrderInputs ==
    {Arg(sd, p, q, q, q, ty, o, 0, mm) :
        sd \in Sides, p \in Prices, q \in Qtys, ty \in {"GTC"}, o \in Traders,
        mm \in BOOLEAN}
    \cup {Arg(sd, p, q, q, q, ty, o, 0, FALSE) :
        sd \in Sides, p \in Prices, q \in Qtys, ty \in {"IOC", "FOK"},
        o \in Traders}
    \cup {Arg(sd, 0, q, q, q, "MARKET", o, 0, FALSE) :
        sd \in Sides, q \in Qtys, o \in Traders}
    \cup {Arg(sd, sp, 1, 1, 1, "STOP_LOSS", o, sp, FALSE) :
        sd \in Sides, sp \in StopPrices, o \in Traders}
    \cup {Arg(sd, p, sh[1], sh[2], sh[3], "ICEBERG", o, 0, mm) :
        sd \in Sides, p \in Prices, sh \in IcebergShapes, o \in Traders,
        mm \in BOOLEAN}

----------------------------------------------------------------------------
(* Init: OrderBook() followed by setup_demo_risk_limits (main.cpp 5-26) *)

DemoLimits ==
    [max_position |-> DEMO_MAX_POSITION, max_order_value |-> DEMO_MAX_ORDER_VALUE,
     max_order_qty |-> DEMO_MAX_ORDER_QTY, daily_loss_limit |-> DEMO_DAILY_LOSS_LIMIT,
     max_price_deviation |-> DEMO_DEVIATION,
     max_orders_per_sec |-> DEMO_MAX_ORDERS_PER_SEC,
     max_daily_volume |-> DEMO_MAX_DAILY_VOLUME]

\* OrderBook::OrderBook()
Constructed ==
    [pool_ |-> [i \in 1..InitialPoolSize |-> DefaultOrder],
     available_ |-> [i \in 1..InitialPoolSize |-> i],
     allocated_count_ |-> 0, bids_ |-> EmptyMap, asks_ |-> EmptyMap,
     orders_ |-> EmptyMap, processing_stops_ |-> {}, stop_cascade_depth_ |-> 0,
     buy_stops_ |-> EmptyMap, sell_stops_ |-> EmptyMap, stop_lookup_ |-> EmptyMap,
     positions_ |-> EmptyMap, trader_limits_ |-> EmptyMap,
     rate_limits_ |-> EmptyMap, last_trade_price_ |-> 0,
     circuit_breaker_ |-> [upper_limit_ |-> 0, lower_limit_ |-> 0,
                           is_triggered_ |-> FALSE],
     clock |-> 0, filled |-> EmptyMap,
     ntrades |-> 0, released |-> << >>, refills |-> << >>,
     executed_stops |-> << >>, stp |-> << >>, ub |-> FALSE, hang |-> FALSE]

RECURSIVE SetLimitsFor(_, _)
SetLimitsFor(s, ts) ==
    IF ts = {} THEN s
    ELSE LET t == SetMin(ts)
         IN SetLimitsFor(set_trader_limits(s, t, DemoLimits), ts \ {t})

\* set_trader_limits(t, limits) for every trader t of ts
RECURSIVE SetLimitsForWith(_, _, _)
SetLimitsForWith(s, ts, limits) ==
    IF ts = {} THEN s
    ELSE LET t == SetMin(ts)
         IN SetLimitsForWith(set_trader_limits(s, t, limits), ts \ {t}, limits)

\* setup_demo_risk_limits, for the traders of the model
setup_demo_risk_limits(s) ==
    LET s1 == SetLimitsFor(s, Traders)
        s2 == [s1 EXCEPT !.circuit_breaker_ =
                 set_limits(DEMO_REFERENCE_PRICE, DEMO_BREAKER_PCT)]
    IN mark_to_market(s2, DEMO_REFERENCE_PRICE)

NoCall == [op |-> "none"]

\* no second run is made
NoTwin == [s |-> << >>, trades |-> << >>]

Init ==
    LET s == setup_demo_risk_limits(Constructed) IN
    /\ pool_ = s.pool_
    /\ available_ = s.available_
    /\ allocated_count_ = s.allocated_count_
    /\ bids_ = s.bids_
    /\ asks_ = s.asks_
    /\ orders_ = s.orders_
    /\ processing_stops_ = s.processing_stops_
    /\ stop_cascade_depth_ = s.stop_cascade_depth_
    /\ buy_stops_ = s.buy_stops_
    /\ sell_stops_ = s.sell_stops_
    /\ stop_lookup_ = s.stop_lookup_
    /\ positions_ = s.positions_
    /\ trader_limits_ = s.trader_limits_
    /\ rate_limits_ = s.rate_limits_
    /\ last_trade_price_ = s.last_trade_price_
    /\ circuit_breaker_ = s.circuit_breaker_
    /\ clock = 0
    /\ calls = 0
    /\ halted = "none"
    /\ filled = EmptyMap
    /\ trades = << >>
    /\ last = NoCall
    /\ twin = NoTwin
    /\ rules_ = DefaultRules

----------------------------------------------------------------------------
(* Actions: one per public call *)

\* what a call found: the book, the stop manager, the id index and the
\* pool's count as they were when it was made
Before ==
    [bids_ |-> bids_, asks_ |-> asks_, orders_ |-> orders_,
     buy_stops_ |-> buy_stops_, sell_stops_ |-> sell_stops_,
     stop_lookup_ |-> stop_lookup_, allocated_count_ |-> allocated_count_]

\* book.add_order(id, ...) with the arguments a, the clock having advanced
\* by dt.  When the call read a destroyed level or divided by zero (r.s.ub)
\* the build either goes on with the value taken there, or the process dies.
AddOrderCall(id, a, dt) ==
    LET Called(r) ==
          LET call == [op |-> "add_order", id |-> id, arg |-> a, risk |-> r.risk,
                       released |-> r.s.released, refills |-> r.s.refills,
                       executed_stops |-> r.s.executed_stops, stp |-> r.s.stp,
                       ub |-> r.s.ub, before |-> Before]
          IN
          /\ calls' = calls + 1
          /\ \/ /\ Becomes(r.s)
                /\ halted' = IF r.s.hang THEN "hang" ELSE "none"
                /\ trades' = r.trades
                /\ last' = call
             \/ /\ r.s.ub
                /\ halted' = "crash"
                /\ last' = call
                /\ UNCHANGED <<pool_, available_, allocated_count_, bids_, asks_,
                               orders_, processing_stops_, stop_cascade_depth_,
                               buy_stops_, sell_stops_, stop_lookup_, positions_,
                               trader_limits_, rate_limits_, last_trade_price_,
                               circuit_breaker_, clock, filled, trades>>
    IN Called(add_order([State EXCEPT !.clock = @ + dt], id, a.side, a.price,
                        a.qty, a.disp, a.display_size, a.type, a.ownerID,
                        a.stop_price, a.mm))

\* a caller drawing its rows from inputs, with a fresh id for every order
AddOrderFrom(inputs, bound) ==
    /\ halted = "none"
    /\ calls < bound
    /\ \E a \in inputs, dt \in TimeSteps : AddOrderCall(calls + 1, a, dt)
    /\ UNCHANGED <<twin, rules_>>

\* book.cancel_order(id)
CancelOrderCall(id) ==
    LET Called(r) ==
          /\ Becomes(r.s)
          /\ calls' = calls + 1
          /\ trades' = << >>
          /\ last' = [op |-> "cancel_order", id |-> id, found |-> r.found]
          /\ UNCHANGED halted
    IN Called(cancel_order(State, id))

\* a caller cancelling any of the ids it may have used
CancelOrderOf(bound) ==
    /\ halted = "none"
    /\ calls < bound
    /\ \E id \in 1..bound : CancelOrderCall(id)
    /\ UNCHANGED <<twin, rules_>>

AddOrder == AddOrderFrom(OrderInputs, MaxCalls)

CancelOrder == CancelOrderOf(MaxCalls)

Next == AddOrder \/ CancelOrder

Spec == Init /\ [][Next]_vars

----------------------------------------------------------------------------
(* Longer sessions of limit orders only: trader 1 rests GTC orders and     *)
(* cancels, trader 2 sends IOC orders.                                     *)

LimitInputs ==
    {Arg(sd, p, 1, 1, 1, "GTC", 1, 0, FALSE) : sd \in Sides, p \in Prices}
    \cup {Arg(sd, p, 1, 1, 1, "IOC", 2, 0, FALSE) : sd \in Sides, p \in Prices}

AddLimitOrder == AddOrderFrom(LimitInputs, MaxLimitCalls)

CancelLimitOrder == CancelOrderOf(MaxLimitCalls)

NextLimit == AddLimitOrder \/ CancelLimitOrder

SpecLimit == Init /\ [][NextLimit]_vars

----------------------------------------------------------------------------
(* Longer sessions of fill-or-kill orders: trader 1 rests GTC and iceberg  *)
(* bids and cancels, trader 2 sends FOK sells.                             *)

FOKInputs ==
    {Arg("BUY", p, 1, 1, 1, "GTC", 1, 0, FALSE) : p \in Prices}
    \cup {Arg("BUY", p, sh[1], sh[2], sh[3], "ICEBERG", 1, 0, FALSE) :
             p \in Prices, sh \in IcebergShapes}
    \cup {Arg("SELL", p, q, q, q, "FOK", 2, 0, FALSE) : p \in Prices, q \in Qtys}

AddFOKOrder == AddOrderFrom(FOKInputs, MaxFOKCalls)

CancelFOKOrder == CancelOrderOf(MaxFOKCalls)

NextFOK == AddFOKOrder \/ CancelFOKOrder

SpecFOK == Init /\ [][NextFOK]_vars

----------------------------------------------------------------------------
(* Longer sessions with stop orders: trader 1 rests GTC bids, trader 2     *)
(* places sell stops, both send IOC sells.                                 *)

StopInputs ==
    {Arg("BUY", p, 1, 1, 1, "GTC", 1, 0, FALSE) : p \in Prices}
    \cup {Arg("SELL", sp, 1, 1, 1, "STOP_LOSS", 2, sp, FALSE) : sp \in StopPrices}
    \cup {Arg("SELL", 100000, 1, 1, 1, "IOC", o, 0, FALSE) : o \in Traders}

AddStopOrder == AddOrderFrom(StopInputs, MaxStopCalls)

CancelStopOrder == CancelOrderOf(MaxStopCalls)

NextStop == AddStopOrder \/ CancelStopOrder

SpecStop == Init /\ [][NextStop]_vars

----------------------------------------------------------------------------
(* Longer sessions with orders the risk gate rejects: trader 1 rests GTC   *)
(* bids and sends IOC sells and orders above max_order_qty.                *)

RiskInputs ==
    {Arg("BUY", p, 1, 1, 1, "GTC", 1, 0, FALSE) : p \in Prices}
    \cup {Arg("SELL", 100000, 1, 1, 1, "IOC", 1, 0, FALSE)}
    \cup {Arg("BUY", 100000, DEMO_MAX_ORDER_QTY + 1, DEMO_MAX_ORDER_QTY + 1,
               DEMO_MAX_ORDER_QTY + 1, "GTC", 1, 0, FALSE)}

AddRiskOrder == AddOrderFrom(RiskInputs, MaxRiskCalls)

CancelRiskOrder == CancelOrderOf(MaxRiskCalls)

NextRisk == AddRiskOrder \/ CancelRiskOrder

SpecRisk == Init /\ [][NextRisk]_vars

----------------------------------------------------------------------------
(* Sessions of a caller that does not keep its ids unique: every order is  *)
(* sent under one of two ids.                                              *)

\* a caller drawing its rows from inputs and its ids from ids
AddOrderAs(inputs, ids, bound) ==
    /\ halted = "none"
    /\ calls < bound
    /\ \E id \in ids, a \in inputs, dt \in TimeSteps : AddOrderCall(id, a, dt)
    /\ UNCHANGED <<twin, rules_>>

ReusedIds == {1, 2}

AddDupOrder == AddOrderAs(LimitInputs, ReusedIds, MaxDupCalls)

CancelDupOrder == CancelOrderOf(MaxDupCalls)

NextDup == AddDupOrder \/ CancelDupOrder

SpecDup == Init /\ [][NextDup]_vars

----------------------------------------------------------------------------
(* Sessions with prices around the circuit breaker's band [80000, 120000]: *)
(* a trade at 110000 moves the last trade price, so that 120000 (the upper *)
(* limit) and 120500 (above it) pass the fat-finger test.                  *)

BreakerInputs ==
    {Arg("BUY", p, 1, 1, 1, "GTC", 1, 0, FALSE) : p \in {110000, 120000, 120500}}
    \cup {Arg("SELL", 110000, 1, 1, 1, "IOC", 2, 0, FALSE)}

AddBreakerOrder == AddOrderFrom(BreakerInputs, MaxBreakerCalls)

CancelBreakerOrder == CancelOrderOf(MaxBreakerCalls)

NextBreaker == AddBreakerOrder \/ CancelBreakerOrder

SpecBreaker == Init /\ [][NextBreaker]_vars

----------------------------------------------------------------------------
(* One sequence of calls applied to two books of the same configuration:   *)
(* the first run makes its calls one nanosecond apart, the second run      *)
(* (twin) at any pace.  The traders' max_orders_per_sec is                 *)
(* ScaledOrdersPerSec, set through set_trader_limits.                      *)

TwoRunInputs ==
    {Arg("BUY", 100000, 1, 1, 1, "GTC", 1, 0, FALSE),
     Arg("SELL", 100000, 3, 3, 3, "IOC", 2, 0, FALSE)}

\* the clock is not advanced beyond this value, two seconds
MaxClock == 2000000000

\* nanoseconds between two calls of the second run
TwinSteps == {1, ONE_SECOND + 1}

\* the record s as the next call finds it: the per-call observations cleared
Cleared(s) ==
    [s EXCEPT !.ntrades = 0, !.released = << >>, !.refills = << >>,
              !.executed_stops = << >>, !.stp = << >>, !.ub = FALSE,
              !.hang = FALSE]

InitTwoRuns ==
    LET s == SetLimitsForWith(
                 setup_demo_risk_limits(Constructed), Traders,
                 [DemoLimits EXCEPT !.max_orders_per_sec = ScaledOrdersPerSec])
    IN
    /\ pool_ = s.pool_
    /\ available_ = s.available_
    /\ allocated_count_ = s.allocated_count_
    /\ bids_ = s.bids_
    /\ asks_ = s.asks_
    /\ orders_ = s.orders_
    /\ processing_stops_ = s.processing_stops_
    /\ stop_cascade_depth_ = s.stop_cascade_depth_
    /\ buy_stops_ = s.buy_stops_
    /\ sell_stops_ = s.sell_stops_
    /\ stop_lookup_ = s.stop_lookup_
    /\ positions_ = s.positions_
    /\ trader_limits_ = s.trader_limits_
    /\ rate_limits_ = s.rate_limits_
    /\ last_trade_price_ = s.last_trade_price_
    /\ circuit_breaker_ = s.circuit_breaker_
    /\ clock = 0
    /\ calls = 0
    /\ halted = "none"
    /\ filled = EmptyMap
    /\ trades = << >>
    /\ last = NoCall
    /\ twin = [s |-> s, trades |-> << >>]
    /\ rules_ = DefaultRules

\* book.add_order(...) on both books
AddOrderTwice ==
    LET TwinCalled(r) == twin' = [s |-> Cleared(r.s), trades |-> r.trades] IN
    /\ halted = "none"
    /\ calls < MaxTwoRunCalls
    /\ \E a \in TwoRunInputs, dt \in TimeSteps, dt2 \in TwinSteps :
          /\ dt2 <= MaxClock - twin.s.clock
          /\ AddOrderCall(calls + 1, a, dt)
          /\ TwinCalled(add_order([twin.s EXCEPT !.clock = @ + dt2], calls + 1,
                                  a.side, a.price, a.qty, a.disp, a.display_size,
                                  a.type, a.ownerID, a.stop_price, a.mm))
    /\ UNCHANGED rules_

\* book.cancel_order(id) on both books
CancelOrderTwice ==
    LET TwinCalled(r) == twin' = [s |-> r.s, trades |-> << >>] IN
    /\ halted = "none"
    /\ calls < MaxTwoRunCalls
    /\ \E id \in 1..MaxTwoRunCalls :
          /\ CancelOrderCall(id)
          /\ TwinCalled(cancel_order(twin.s, id))
    /\ UNCHANGED rules_

NextTwoRuns == AddOrderTwice \/ CancelOrderTwice

SpecTwoRuns == InitTwoRuns /\ [][NextTwoRuns]_vars

----------------------------------------------------------------------------
(* Sessions of rows read from a file (main.cpp 85-111), whose disp and     *)
(* display_size are whatever the file holds: trader 1 rests iceberg bids,  *)
(* trader 2 sells into them.                                               *)

\* the icebergs' <<quantity, disp, display_size>>: a slice of 0, a slice
\* of 1, and a first slice larger than the quantity
ShapeInputs ==
    {Arg("BUY", 100000, sh[1], sh[2], sh[3], "ICEBERG", 1, 0, FALSE) :
        sh \in {<<3, 1, 0>>, <<3, 1, 1>>, <<1, 2, 2>>}}
    \cup {Arg("SELL", 100000, q, q, q, "IOC", 2, 0, FALSE) : q \in Qtys}
    \cup {Arg("SELL", 0, 2, 2, 2, "MARKET", 2, 0, FALSE)}

AddShapeOrder == AddOrderFrom(ShapeInputs, MaxShapeCalls)

CancelShapeOrder == CancelOrderOf(MaxShapeCalls)

NextShape == AddShapeOrder \/ CancelShapeOrder

SpecShapes == Init /\ [][NextShape]_vars

----------------------------------------------------------------------------
(* The order pool on its own: a holder acquires slots and releases         *)
(* pointers, among them pointers it does not hold.                         *)

\* the slots handed out and not released since, as the holder knows them
Issued == IF last.op \in {"acquire", "release"} THEN last.issued ELSE {}

\* the pointers acquire has returned so far: the ones a holder can pass
Known == IF last.op \in {"acquire", "release"} THEN last.known ELSE {}

\* order_pool_.acquire()
PoolAcquire ==
    LET Got(a) ==
          /\ pool_' = a.s.pool_
          /\ available_' = a.s.available_
          /\ allocated_count_' = a.s.allocated_count_
          /\ last' = [op |-> "acquire", ptr |-> a.ptr,
                      issued |-> Issued \cup {a.ptr},
                      known |-> Known \cup {a.ptr}]
    IN
    /\ calls < MaxPoolCalls
    /\ Got(acquire(State))
    /\ calls' = calls + 1
    /\ UNCHANGED <<bids_, asks_, orders_, processing_stops_,
                   stop_cascade_depth_, buy_stops_, sell_stops_, stop_lookup_,
                   positions_, trader_limits_, rate_limits_, last_trade_price_,
                   circuit_breaker_, clock, halted, filled, trades, twin,
                   rules_>>

\* order_pool_.release(obj): obj is a pointer acquire returned, still issued
\* or released since, or a pointer that is not the pool's (0)
PoolRelease ==
    LET Put(ptr, s) ==
          /\ pool_' = s.pool_
          /\ available_' = s.available_
          /\ allocated_count_' = s.allocated_count_
          /\ last' = [op |-> "release", ptr |-> ptr, issued |-> Issued \ {ptr},
                      known |-> Known]
    IN
    /\ calls < MaxPoolCalls
    /\ \E ptr \in Known \cup {0} : Put(ptr, release(State, ptr))
    /\ calls' = calls + 1
    /\ UNCHANGED <<bids_, asks_, orders_, processing_stops_,
                   stop_cascade_depth_, buy_stops_, sell_stops_, stop_lookup_,
                   positions_, trader_limits_, rate_limits_, last_trade_price_,
                   circuit_breaker_, clock, halted, filled, trades, twin,
                   rules_>>

NextPool == PoolAcquire \/ PoolRelease

SpecPool == Init /\ [][NextPool]_vars

----------------------------------------------------------------------------
(* Sessions with stops on both sides: trader 2 rests asks at 100005 and    *)
(* 100010 and a sell stop, trader 1 places a buy stop and buys 2 at        *)
(* 100005.  All prices are on a tick.                                      *)

BothStopInputs ==
    {Arg("SELL", p, 1, 1, 1, "GTC", 2, 0, FALSE) : p \in {100005, 100010}}
    \cup {Arg("BUY", 100005, 1, 1, 1, "STOP_LOSS", 1, 100005, FALSE),
          Arg("SELL", 100005, 1, 1, 1, "STOP_LOSS", 2, 100005, FALSE),
          Arg("BUY", 100005, 2, 2, 2, "GTC", 1, 0, FALSE)}

AddBothStopsOrder == AddOrderFrom(BothStopInputs, MaxBothCalls)

CancelBothStopsOrder == CancelOrderOf(MaxBothCalls)

NextBothStops == AddBothStopsOrder \/ CancelBothStopsOrder

SpecBothStops == Init /\ [][NextBothStops]_vars

----------------------------------------------------------------------------
(* Sessions with orders that fail one or several of the risk checks.       *)
(* Trader 1 rests 400 at 110000 and at 100000, trader 2 buys them high and *)
(* sells them low, which takes its loss beyond daily_loss_limit; the other *)
(* rows are too large, priced at 20000 (far from every trade and below the *)
(* breaker's band), or come from a trader no limits were set for.          *)
(* max_orders_per_sec is ScaledOrdersPerSec, as in SpecTwoRuns.            *)

\* the first trader id setup_demo_risk_limits sets no limits for
\* (main.cpp:16)
FIRST_TRADER_WITHOUT_LIMITS == 101

CheckInputs ==
    {Arg("SELL", 110000, 400, 400, 400, "GTC", 1, 0, FALSE),
     Arg("BUY", 110000, 400, 400, 400, "IOC", 2, 0, FALSE),
     Arg("BUY", 100000, 400, 400, 400, "GTC", 1, 0, FALSE),
     Arg("SELL", 100000, 400, 400, 400, "IOC", 2, 0, FALSE),
     Arg("BUY", 100000, 1, 1, 1, "GTC", FIRST_TRADER_WITHOUT_LIMITS, 0, FALSE),
     Arg("SELL", 100000, 1, 1, 1, "STOP_LOSS", FIRST_TRADER_WITHOUT_LIMITS,
         100000, FALSE),
     Arg("BUY", 120000, 1, 1, 1, "GTC", 2, 0, FALSE)}
    \cup {Arg("BUY", 20000, q, q, q, "GTC", 2, 0, FALSE) :
             q \in {1, DEMO_MAX_ORDER_QTY + 1, DEMO_MAX_POSITION + 1}}

NextChecks ==
    AddOrderFrom(CheckInputs, MaxCheckCalls) \/ CancelOrderOf(MaxCheckCalls)

SpecChecks == InitTwoRuns /\ [][NextChecks]_vars

----------------------------------------------------------------------------
(* Sessions whose calls are one nanosecond, half a second, one second or   *)
(* just over one second apart.  max_orders_per_sec is ScaledOrdersPerSec,  *)
(* as in SpecTwoRuns.                                                      *)

PaceInputs ==
    {Arg("BUY", 100000, 1, 1, 1, "GTC", 1, 0, FALSE),
     Arg("SELL", 100000, 1, 1, 1, "IOC", 2, 0, FALSE)}

\* nanoseconds between two calls
PaceSteps == {1, 500000000, ONE_SECOND, ONE_SECOND + 1}

AddOrderPaced ==
    /\ halted = "none"
    /\ calls < MaxPaceCalls
    /\ \E a \in PaceInputs, dt \in PaceSteps :
          /\ dt <= MaxClock - clock
          /\ AddOrderCall(calls + 1, a, dt)
    /\ UNCHANGED <<twin, rules_>>

NextPace == AddOrderPaced \/ CancelOrderOf(MaxPaceCalls)

SpecPace == InitTwoRuns /\ [][NextPace]_vars

----------------------------------------------------------------------------
(* A TickSizeTable alone: its constructor adds the default rules one by    *)
(* one, then a holder calls add_rule and round_to_tick.                    *)

\* the table as its constructor finds it: rules_ is empty
InitTicks ==
    LET s == Constructed IN
    /\ pool_ = s.pool_
    /\ available_ = s.available_
    /\ allocated_count_ = s.allocated_count_
    /\ bids_ = s.bids_
    /\ asks_ = s.asks_
    /\ orders_ = s.orders_
    /\ processing_stops_ = s.processing_stops_
    /\ stop_cascade_depth_ = s.stop_cascade_depth_
    /\ buy_stops_ = s.buy_stops_
    /\ sell_stops_ = s.sell_stops_
    /\ stop_lookup_ = s.stop_lookup_
    /\ positions_ = s.positions_
    /\ trader_limits_ = s.trader_limits_
    /\ rate_limits_ = s.rate_limits_
    /\ last_trade_price_ = s.last_trade_price_
    /\ circuit_breaker_ = s.circuit_breaker_
    /\ clock = 0
    /\ calls = 0
    /\ halted = "none"
    /\ filled = EmptyMap
    /\ trades = << >>
    /\ last = NoCall
    /\ twin = NoTwin
    /\ rules_ = << >>

\* add_rule(min_price, max_price, tick_size) on the table
AddRuleCall(rule) ==
    LET Called(r) ==
          /\ rules_' = r.rules
          /\ last' = [op |-> "add_rule", rule |-> rule, threw |-> r.threw,
                      before |-> rules_]
    IN Called(add_rule(rules_, rule[1], rule[2], rule[3]))

\* the next add_rule call of TickSizeTable::TickSizeTable(), which is
\* running as long as rules_ is shorter than the default table
ConstructTable ==
    /\ Len(rules_) < Len(DefaultRules)
    /\ AddRuleCall(DefaultRules[Len(rules_) + 1])
    /\ UNCHANGED <<pool_, available_, allocated_count_, bids_, asks_, orders_,
                   processing_stops_, stop_cascade_depth_, buy_stops_,
                   sell_stops_, stop_lookup_, positions_, trader_limits_,
                   rate_limits_, last_trade_price_, circuit_breaker_, clock,
                   filled, trades, twin, calls, halted>>

\* a holder of the table calls add_rule and catches what it throws.  The
\* bands <<min_price, max_price, tick_size>> it tries: the only band clear
\* of the default ones is [0, 0]; the others overlap, are inverted, or
\* have a tick size of 0 or a negative min_price
AddRule ==
    /\ Len(rules_) >= Len(DefaultRules)
    /\ halted = "none"
    /\ calls < MaxTickCalls
    /\ \E rule \in {<<0, 0, 1>>, <<0, 0, 7>>, <<0, 5, 1>>, <<50, 60, 1>>,
                     <<5, 3, 1>>, <<0, 0, 0>>, <<-5, -1, 1>>} :
          AddRuleCall(rule)
    /\ calls' = calls + 1
    /\ UNCHANGED <<pool_, available_, allocated_count_, bids_, asks_, orders_,
                   processing_stops_, stop_cascade_depth_, buy_stops_,
                   sell_stops_, stop_lookup_, positions_, trader_limits_,
                   rate_limits_, last_trade_price_, circuit_breaker_, clock,
                   filled, trades, twin, halted>>

\* a holder of the table calls round_to_tick(price), with prices around
\* the edges of the bands, between two ticks, and up to the largest Price.
\* When the sum overflows the build either goes on with the wrapped sum or
\* the process dies
RoundToTick ==
    /\ Len(rules_) >= Len(DefaultRules)
    /\ halted = "none"
    /\ calls < MaxTickCalls
    /\ \E price \in {-1, 0, 1, 99, 100002, 100003, 499998, 500005, 999995,
                      1000049, 1000050, LLONG_MAX - 147, LLONG_MAX - 67,
                      LLONG_MAX - 47, LLONG_MAX} :
          /\ \E result \in RoundOutcomes(rules_, price) :
                last' = [op |-> "round_to_tick", price |-> price,
                         result |-> result]
          /\ \/ halted' = "none"
             \/ RoundOverflows(rules_, price) /\ halted' = "crash"
    /\ calls' = calls + 1
    /\ UNCHANGED <<pool_, available_, allocated_count_, bids_, asks_, orders_,
                   processing_stops_, stop_cascade_depth_, buy_stops_,
                   sell_stops_, stop_lookup_, positions_, trader_limits_,
                   rate_limits_, last_trade_price_, circuit_breaker_, clock,
                   filled, trades, twin, rules_>>

NextTicks == ConstructTable \/ AddRule \/ RoundToTick

SpecTicks == InitTicks /\ [][NextTicks]_vars

----------------------------------------------------------------------------
(* Sessions of three traders whose position limit is ScaledMaxPosition:    *)
(* trader 1 rests buy orders, traders 2 and 3 sell into them, and trader 2 *)
(* also leaves sell stops.                                                 *)

\* setup_demo_risk_limits gives every trader from 1 to 100 the same limits
InitPosition ==
    LET s == SetLimitsForWith(
                 setup_demo_risk_limits(Constructed), {1, 2, 3},
                 [DemoLimits EXCEPT !.max_position = ScaledMaxPosition])
    IN
    /\ pool_ = s.pool_
    /\ available_ = s.available_
    /\ allocated_count_ = s.allocated_count_
    /\ bids_ = s.bids_
    /\ asks_ = s.asks_
    /\ orders_ = s.orders_
    /\ processing_stops_ = s.processing_stops_
    /\ stop_cascade_depth_ = s.stop_cascade_depth_
    /\ buy_stops_ = s.buy_stops_
    /\ sell_stops_ = s.sell_stops_
    /\ stop_lookup_ = s.stop_lookup_
    /\ positions_ = s.positions_
    /\ trader_limits_ = s.trader_limits_
    /\ rate_limits_ = s.rate_limits_
    /\ last_trade_price_ = s.last_trade_price_
    /\ circuit_breaker_ = s.circuit_breaker_
    /\ clock = 0
    /\ calls = 0
    /\ halted = "none"
    /\ filled = EmptyMap
    /\ trades = << >>
    /\ last = NoCall
    /\ twin = NoTwin
    /\ rules_ = DefaultRules

PositionInputs ==
    {Arg("BUY", 100000, q, q, q, "GTC", 1, 0, FALSE) : q \in Qtys}
    \cup {Arg("SELL", 100000, q, q, q, "IOC", t, 0, FALSE) :
             q \in Qtys, t \in {2, 3}}
    \cup {Arg("SELL", 100000, 2, 2, 2, "STOP_LOSS", 2, 100000, FALSE)}

NextPosition ==
    AddOrderFrom(PositionInputs, MaxPositionCalls)
       \/ CancelOrderOf(MaxPositionCalls)

SpecPosition == InitPosition /\ [][NextPosition]_vars

----------------------------------------------------------------------------
(* Properties.  Definitions used only to state them *)

\* the slots queued in the levels of bids_ and asks_
Queued == SlotsOnSide(State, "BUY") \cup SlotsOnSide(State, "SELL")

IsAddOrder(call) == call.op = "add_order"

RECURSIVE DisplayedTo(_, _)
\* what the entries of one sublist show to an aggressor of the given owner
DisplayedTo(q, owner) ==
    IF q = << >> THEN 0
    ELSE (IF pool_[Head(q)].ownerID # owner /\ pool_[Head(q)].display > 0
          THEN pool_[Head(q)].display ELSE 0)
         + DisplayedTo(Tail(q), owner)

RECURSIVE DisplayedIn(_, _, _)
DisplayedIn(book, keys, owner) ==
    IF keys = {} THEN 0
    ELSE LET k == SetMin(keys)
         IN DisplayedTo(book[k].mm_orders, owner)
            + DisplayedTo(book[k].regular_orders, owner)
            + DisplayedIn(book, keys \ {k}, owner)

\* the displayed quantity resting opposite to an order of the given side
\* and owner, at levels priced within its (tick-normalised) limit
AvailableTo(side, limit, owner) ==
    IF side = "BUY"
    THEN DisplayedIn(asks_, {k \in DOMAIN asks_ : k <= limit}, owner)
    ELSE DisplayedIn(bids_, {k \in DOMAIN bids_ : k >= limit}, owner)

\* C1.  Fill-or-kill is atomic: when a FOK order cannot be filled for its
\* whole quantity from the opposite-side resting orders of other owners
\* priced within its limit, the call returns no trade and leaves both
\* sides of the book, every resting order's display and remaining, the id
\* index, the stop manager, the positions and the pool's allocated count
\* as they were.
FOKAtomicity ==
    [][(/\ IsAddOrder(last')
        /\ last'.arg.type = "FOK"
        /\ AvailableTo(last'.arg.side, Normalize(last'.arg.price),
                       last'.arg.ownerID) < last'.arg.qty)
       => (/\ trades' = << >>
           /\ bids_' = bids_
           /\ asks_' = asks_
           /\ orders_' = orders_
           /\ buy_stops_' = buy_stops_
           /\ sell_stops_' = sell_stops_
           /\ stop_lookup_' = stop_lookup_
           /\ positions_' = positions_
           /\ allocated_count_' = allocated_count_
           /\ \A q \in Queued : /\ pool_'[q].display = pool_[q].display
                                /\ pool_'[q].remaining = pool_[q].remaining)]_vars

\* a FOK order passed the risk gate, found some but not enough displayed
\* quantity within its limit, and was killed
FOKKilledShort ==
    /\ IsAddOrder(last)
    /\ last.arg.type = "FOK"
    /\ last.risk = "APPROVED"
    /\ trades = << >>
    /\ AvailableTo(last.arg.side, Normalize(last.arg.price), last.arg.ownerID) > 0
    /\ AvailableTo(last.arg.side, Normalize(last.arg.price), last.arg.ownerID)
         < last.arg.qty

\* C2.  No trade is between two orders of one owner: for every emitted
\* trade the owner of the order named by buy_id is not the owner of the
\* order named by sell_id (the aggressor and the passive order, one on each
\* side), on the limit, MARKET, FOK and stop paths alike.
OwnersDiffer ==
    \A i \in 1..Len(trades) :
        /\ {trades[i].buy_id, trades[i].sell_id}
             = {trades[i].aggr_id, trades[i].pass_id}
        /\ trades[i].aggr_owner # trades[i].pass_owner

\* a call removed a resting order of the aggressor's owner and then traded
\* with another owner's order
TradedPastOwnOrder ==
    /\ IsAddOrder(last)
    /\ last.stp # << >>
    /\ trades # << >>
    /\ \E i \in 1..Len(trades) : trades[i].pass_owner # last.arg.ownerID

\* C3.  Every trade is priced at the price field the resting (passive)
\* order had at the moment of the match, on every matching path; when the
\* aggressor's price differs, the trade is not at the aggressor's price.
TradeAtPassivePrice ==
    \A i \in 1..Len(trades) : trades[i].price = trades[i].pass_price

\* a trade between an aggressor and a passive order priced differently
TradedAtBetterPrice ==
    \E i \in 1..Len(trades) :
        /\ trades[i].aggr_type \in {"GTC", "IOC", "FOK", "ICEBERG"}
        /\ trades[i].aggr_price # trades[i].pass_price
        /\ trades[i].quantity > 0

\* C4.  Matching respects price-time priority: an aggressor never trades
\* with a resting order while another resting order of a different owner
\* than the aggressor's stands at a strictly better price with display > 0,
\* and within one sublist of a level it never trades with an order while
\* such an order stands ahead of it.
PriceTimePriority ==
    \A i \in 1..Len(trades) : ~trades[i].better /\ ~trades[i].ahead

\* C5.  A limit-priced aggressor (GTC, IOC, FOK, ICEBERG) never trades
\* through its tick-normalised limit: a BUY never trades above it, a SELL
\* never below it.
NoTradeThrough ==
    \A i \in 1..Len(trades) :
        trades[i].aggr_type \in {"GTC", "IOC", "FOK", "ICEBERG"}
          => IF trades[i].aggr_side = "BUY"
             THEN trades[i].price <= trades[i].aggr_price
             ELSE trades[i].price >= trades[i].aggr_price

FilledOf(id) == IF id \in DOMAIN filled THEN filled[id] ELSE 0

\* C6.  Quantity is conserved: for every order resting in a level the sum
\* of the quantities of the trades naming its id equals its quantity minus
\* (display + remaining).
QuantityConserved ==
    \A q \in Queued :
        FilledOf(pool_[q].id)
          = pool_[q].quantity - (pool_[q].display + pool_[q].remaining)

\* C7.  For every order resting in a level display + remaining never
\* exceeds quantity.
DisplayPlusRemainingBounded ==
    \A q \in Queued : pool_[q].display + pool_[q].remaining <= pool_[q].quantity

\* C8.  An order resting in a bid or ask level has display > 0, and a
\* resting iceberg's display never exceeds its display_size.
RestingDisplayPositive ==
    \A q \in Queued :
        /\ pool_[q].display > 0
        /\ pool_[q].type = "ICEBERG" => pool_[q].display <= pool_[q].display_size

\* C9.  An iceberg is removed from the book as filled only when the trades
\* naming its id sum to its quantity.
IcebergReleasedWhenFilled ==
    IsAddOrder(last) =>
        \A i \in 1..Len(last.released) :
            last.released[i].type = "ICEBERG"
              => last.released[i].filled = last.released[i].quantity

\* C10.  A refilled iceberg is reinserted at the tail of its sublist: right
\* after the refill it stands before no other order in any sublist.
RefillGoesToTail ==
    IsAddOrder(last) =>
        \A i \in 1..Len(last.refills) : ~last.refills[i].before_other

\* C11.  An IOC, FOK or MARKET order never rests: after its add_order call
\* no level entry carries its id and its id is not in the id index,
\* whatever was left unfilled; a GTC or ICEBERG order that the call left
\* in the id index has display > 0.  Ids are fresh, as AddOrderFrom draws
\* them.
NonRestingTypesGone ==
    IsAddOrder(last) =>
        /\ last.arg.type \in {"IOC", "FOK", "MARKET"}
              => /\ last.id \notin DOMAIN orders_
                 /\ \A q \in Queued : pool_[q].id # last.id
        /\ (last.arg.type \in {"GTC", "ICEBERG"} /\ last.id \in DOMAIN orders_)
              => pool_[orders_[last.id]].display > 0

\* an IOC order traded a part of its quantity and the rest was dropped
IOCLeftUnfilled ==
    /\ IsAddOrder(last)
    /\ last.arg.type = "IOC"
    /\ halted = "none"
    /\ trades # << >>
    /\ FilledOf(last.id) < last.arg.qty

\* C12.  A STOP_LOSS order lives in the stop manager only: its add_order
\* call returns no trade, records it in the stop manager and in the id
\* index and leaves bids and asks as they were, and after every call no
\* entry of a bid or ask level is an order of type STOP_LOSS.
StopOnlyInManager ==
    [][/\ \A q \in Queued' : pool_'[q].type # "STOP_LOSS"
       /\ (IsAddOrder(last') /\ last'.arg.type = "STOP_LOSS")
             => /\ trades' = << >>
                /\ last'.id \in DOMAIN stop_lookup_'
                /\ last'.id \in DOMAIN orders_'
                /\ bids_' = bids_
                /\ asks_' = asks_]_vars

\* the limit order of the last call found an opposite level priced within
\* its limit, as sent or as rounded to the tick
Crossed ==
    IF last.arg.side = "BUY"
    THEN \E k \in DOMAIN last.before.asks_ :
            k <= last.arg.price \/ k <= Normalize(last.arg.price)
    ELSE \E k \in DOMAIN last.before.bids_ :
            k >= last.arg.price \/ k >= Normalize(last.arg.price)

\* the last call was an add_order whose order rested without trading
RestedUntraded ==
    /\ IsAddOrder(last)
    /\ last.risk = "APPROVED"
    /\ trades = << >>
    /\ last.id \in DOMAIN orders_
    /\ \/ last.arg.type = "STOP_LOSS"
       \/ last.arg.type \in {"GTC", "ICEBERG"} /\ ~Crossed

\* C13.  Round trip: when an order rested without trading (a GTC or
\* ICEBERG order that did not cross, or a STOP_LOSS order) and the next
\* call cancels it, cancel_order returns true and bids, asks, the stop
\* manager, the id index and the pool's allocated count are what they
\* were before the add_order call.
CancelUndoesAdd ==
    [][(/\ RestedUntraded
        /\ last'.op = "cancel_order"
        /\ last'.id = last.id)
       => (/\ last'.found
           /\ bids_' = last.before.bids_
           /\ asks_' = last.before.asks_
           /\ buy_stops_' = last.before.buy_stops_
           /\ sell_stops_' = last.before.sell_stops_
           /\ stop_lookup_' = last.before.stop_lookup_
           /\ orders_' = last.before.orders_
           /\ allocated_count_' = last.before.allocated_count_)]_vars

\* C14.  cancel_order(id) returns false exactly when id is not in the id
\* index; when it returns true the order is gone: its id is not in the
\* index and its slot is an entry of no bid or ask level, so that no later
\* call can trade against it.
CancelRemovesOrder ==
    [][last'.op = "cancel_order"
       => /\ last'.found = (last'.id \in DOMAIN orders_)
          /\ last'.found
                => /\ last'.id \notin DOMAIN orders_'
                   /\ orders_[last'.id] \notin Queued']_vars

\* C15.  add_order under the id of an order that rests on the book is
\* rejected: it returns no trade and leaves bids, asks, the resting order
\* and the index entry of that id as they were.
DuplicateIdRejected ==
    [][(/\ IsAddOrder(last')
        /\ last'.id \in DOMAIN orders_
        /\ orders_[last'.id] \in Queued
        /\ pool_[orders_[last'.id]].id = last'.id)
       => (/\ trades' = << >>
           /\ bids_' = bids_
           /\ asks_' = asks_
           /\ last'.id \in DOMAIN orders_'
           /\ orders_'[last'.id] = orders_[last'.id]
           /\ pool_'[orders_[last'.id]] = pool_[orders_[last'.id]])]_vars

\* C16.  Tick compliance: every non-zero price stored on the book, the key
\* of a bid or ask level as well as the price field of an order queued in
\* one, is a fixed point of round_to_tick.
TickCompliant ==
    /\ \A k \in (DOMAIN bids_) \cup (DOMAIN asks_) :
          k # 0 => round_to_tick(k) = k
    /\ \A q \in Queued :
          pool_[q].price # 0 => round_to_tick(pool_[q].price) = pool_[q].price

\* C17.  One add_order call converts to MARKET and executes at most
\* MAX_CASCADE_DEPTH triggered stop orders, however many pending stops the
\* last trade price triggers.
CascadeBounded ==
    IsAddOrder(last) => Len(last.executed_stops) <= MAX_CASCADE_DEPTH

\* the stops whose trigger condition the price p meets
TriggeredBy(p) ==
    {k \in DOMAIN buy_stops_ : k <= p} \cup {k \in DOMAIN sell_stops_ : k >= p}

\* C18.  The trades of an executed stop trigger further stops in the same
\* call: when the call executed fewer than MAX_CASCADE_DEPTH stops, no stop
\* whose trigger condition is met by the price of a trade that an executed
\* stop produced is still pending when add_order returns.
StopTradesCascade ==
    (IsAddOrder(last) /\ halted = "none"
       /\ Len(last.executed_stops) < MAX_CASCADE_DEPTH)
      => \A i \in 1..Len(trades) :
            trades[i].path = "stop" => TriggeredBy(trades[i].price) = {}

\* the trades of the matching phase of a call, the ones made before any
\* stop was looked at
MatchTrades(ts) == SelectSeq(ts, LAMBDA t : t.path # "stop")

\* the slots of the stops pending in the buckets of m at the given keys
StopSlotsAt(m, keys) == UNION {SeqToSet(m[k]) : k \in keys}

\* a map without the keys outside keep
Restricted(m, keep) == [k \in (DOMAIN m) \cap keep |-> m[k]]

\* C19.  When a call's matching ends with a trade at price p, the stops
\* fired are exactly the pending buy stops with stop_price <= p and the
\* pending sell stops with stop_price >= p: these and no others are
\* executed; each of them is gone from the stop manager and from the id
\* index and its slot is back in the pool when the call returns; every
\* other stop is pending as before, its order unchanged.
StopsFireExactly ==
    [][(/\ IsAddOrder(last')
        /\ halted' = "none"
        /\ MatchTrades(trades') # << >>)
       => LET mt == MatchTrades(trades')
              price == mt[Len(mt)].price
              buys == {k \in DOMAIN buy_stops_ : k <= price}
              sells == {k \in DOMAIN sell_stops_ : k >= price}
              fired == StopSlotsAt(buy_stops_, buys)
                         \cup StopSlotsAt(sell_stops_, sells)
              kept == StopSlotsAt(buy_stops_, (DOMAIN buy_stops_) \ buys)
                         \cup StopSlotsAt(sell_stops_, (DOMAIN sell_stops_) \ sells)
          IN /\ SeqToSet(last'.executed_stops) = {pool_[q].id : q \in fired}
             /\ buy_stops_' = Restricted(buy_stops_, (DOMAIN buy_stops_) \ buys)
             /\ sell_stops_' = Restricted(sell_stops_, (DOMAIN sell_stops_) \ sells)
             /\ stop_lookup_' = Restricted(stop_lookup_, {pool_[q].id : q \in kept})
             /\ \A q \in fired : /\ pool_[q].id \notin DOMAIN orders_'
                                 /\ q \in SeqToSet(available_')
             /\ \A q \in kept : pool_'[q] = pool_[q]]_vars

\* a trader's position, zero for a trader the map has no entry for
PositionOf(m, trader) == IF trader \in DOMAIN m THEN m[trader] ELSE ZeroPosition

\* C20.  An order the risk gate does not approve leaves no trace: add_order
\* returns no trade, the order is in no level, not in the stop manager and
\* not in the id index, bids, asks and the stop manager are as before, no
\* order that rests under its id in the index is changed, no trader's
\* position is changed, and the pool's allocated count is as before.
RejectionLeavesNoTrace ==
    [][(IsAddOrder(last') /\ last'.risk # "APPROVED")
       => (/\ trades' = << >>
           /\ bids_' = bids_
           /\ asks_' = asks_
           /\ buy_stops_' = buy_stops_
           /\ sell_stops_' = sell_stops_
           /\ stop_lookup_' = stop_lookup_
           /\ orders_' = orders_
           /\ last'.id \notin DOMAIN orders_'
           /\ \A id \in DOMAIN orders_ :
                 pool_'[orders_[id]] = pool_[orders_[id]]
           /\ \A t \in (DOMAIN positions_) \cup (DOMAIN positions_') :
                 PositionOf(positions_', t) = PositionOf(positions_, t)
           /\ allocated_count_' = allocated_count_)]_vars

\* the price check_order reads from the order add_order built for the call
CheckedPrice(call) ==
    IF call.arg.type # "MARKET" THEN Normalize(call.arg.price) ELSE call.arg.price

\* the call's order got as far as the circuit breaker's test, the last one
ReachedBreaker(call) ==
    /\ IsAddOrder(call)
    /\ call.arg.type # "STOP_LOSS"
    /\ call.risk \in {"APPROVED", "REJECTED_CIRCUIT_BREAKER"}

OutsideBand(price) ==
    price < circuit_breaker_.lower_limit_ \/ price > circuit_breaker_.upper_limit_

\* C21.  An order that reaches the circuit breaker's test with a price
\* outside [lower, upper] is rejected with REJECTED_CIRCUIT_BREAKER and
\* leaves the breaker latched, also when the breaker was latched already;
\* an order whose price is inside the band, bounds included, is not
\* rejected by the breaker.
BreakerRejectsOutside ==
    (ReachedBreaker(last) /\ halted = "none")
       => IF OutsideBand(CheckedPrice(last))
          THEN /\ last.risk = "REJECTED_CIRCUIT_BREAKER"
               /\ circuit_breaker_.is_triggered_
          ELSE last.risk = "APPROVED"

\* a trade as add_order returns it, without its timestamp
TradeOf(t) ==
    [buy_id |-> t.buy_id, sell_id |-> t.sell_id, price |-> t.price,
     quantity |-> t.quantity]

TradeList(ts) == [i \in 1..Len(ts) |-> TradeOf(ts[i])]

\* C22.  Determinism: two runs that apply the same sequence of add_order
\* and cancel_order calls to the same initial configuration return the
\* same trades from every call, timestamps apart, whatever the times at
\* which the calls are made.
SameTradesAtAnyPace ==
    twin # NoTwin => TradeList(trades) = TradeList(twin.trades)

\* C23.  Every add_order call terminates: whatever the order's type, price,
\* quantity, disp and display_size and whatever the state of the book and
\* of the stop manager, its matching loops, the iceberg refills of the
\* passive orders it matches and the stop cascade it provokes come to an
\* end and the call returns.
AddOrderTerminates == IsAddOrder(last) => halted # "hang"

\* C24.  Releasing a pointer that is not currently issued (a slot released
\* already and not acquired since, or a pointer the pool never issued)
\* leaves the pool unchanged; so acquire never hands out a slot that is
\* still issued, and allocated_count plus available_count is always
\* total_capacity.
ReleaseOfUnissuedIgnored ==
    [][/\ (last'.op = "release" /\ last'.ptr \notin Issued)
            => UNCHANGED <<pool_, available_, allocated_count_>>
       /\ last'.op = "acquire" => last'.ptr \notin Issued
       /\ last'.op \in {"acquire", "release"}
            => allocated_count_' + Len(available_') = Len(pool_')]_vars

\* the trade names the order id as its buyer or its seller
Names(t, id) == t.buy_id = id \/ t.sell_id = id

\* the trades of the list are in the order they were produced: the matches
\* of the incoming order, then those of the first stop executed, of the
\* second, and so on
InOrderOfProduction(ts) ==
    /\ \A i \in 1..Len(ts) : ts[i].seq = i
    /\ \A i, j \in 1..Len(ts) : i < j => ts[i].stop_no <= ts[j].stop_no

\* C25 as amended.  In the trade list returned by one add_order call the
\* trades made by matching the incoming order (the incoming order is their
\* aggressor) come first, in the order they were matched, and are followed
\* by the trades made by the triggered stops, grouped per stop in the order
\* the stop manager emitted the stops.
ProducedInOrder ==
    (IsAddOrder(last) /\ halted = "none")
       => /\ InOrderOfProduction(trades)
          /\ \A i \in 1..Len(trades) :
                /\ trades[i].stop_no = 0
                     => (trades[i].path # "stop" /\ trades[i].aggr_id = last.id)
                /\ trades[i].stop_no > 0
                     => /\ trades[i].path = "stop"
                        /\ trades[i].aggr_id =
                              last.executed_stops[trades[i].stop_no]

\* a call returned matches of the incoming order followed by the trades of
\* two stops
TwoStopsAfterDirectFills ==
    /\ IsAddOrder(last)
    /\ halted = "none"
    /\ \E i, j, k \in 1..Len(trades) :
          trades[i].stop_no = 0 /\ trades[j].stop_no = 1 /\ trades[k].stop_no = 2

\* C25.  In the trade list returned by one add_order call all trades in
\* which the incoming order is a party come first, in the order they were
\* matched, and are followed by the trades of the triggered stops, grouped
\* per stop in the order the stop manager emitted the stops.
IncomingPartyFirst ==
    (IsAddOrder(last) /\ halted = "none")
       => /\ InOrderOfProduction(trades)
          /\ \A i, j \in 1..Len(trades) :
                (i < j /\ Names(trades[j], last.id)) => Names(trades[i], last.id)

\* the total quantity of the trades of ts that name the order id
RECURSIVE QuantityNaming(_, _)
QuantityNaming(ts, id) ==
    IF ts = << >> THEN 0
    ELSE (IF Names(Head(ts), id) THEN Head(ts).quantity ELSE 0)
         + QuantityNaming(Tail(ts), id)

\* the trades of the FOK commit among the returned trades
CommitTrades == SelectSeq(trades, LAMBDA t : t.path = "fok")

\* C26.  When add_order of a FOK order returns trades, the quantities of
\* the trades in which the FOK order is a party sum to exactly the order's
\* quantity, and the commit takes from each passive order what the probe
\* recorded for it, in the probe's order: every commit trade names the FOK
\* order and a resting order of another id, is for a positive quantity
\* that the passive order displays when it is reduced, and the passive
\* prices run from the best price on (bids downwards, asks upwards).
FOKFillsAsProbed ==
    (IsAddOrder(last) /\ last.arg.type = "FOK" /\ trades # << >>
       /\ halted = "none")
       => /\ QuantityNaming(trades, last.id) = last.arg.qty
          /\ \A i \in 1..Len(CommitTrades) :
                /\ CommitTrades[i].aggr_id = last.id
                /\ CommitTrades[i].pass_id \in DOMAIN last.before.orders_
                /\ CommitTrades[i].quantity > 0
                /\ CommitTrades[i].quantity <= CommitTrades[i].pass_display
          /\ \A i, j \in 1..Len(CommitTrades) :
                i < j => IF last.arg.side = "SELL"
                         THEN CommitTrades[i].pass_price >= CommitTrades[j].pass_price
                         ELSE CommitTrades[i].pass_price <= CommitTrades[j].pass_price

\* the order id rests in a level of the given side
RestsOnSide(id, side) ==
    /\ id \in DOMAIN orders_
    /\ orders_[id] \in SlotsOnSide(State, side)

\* C27.  When limit or MARKET matching finds a passive order of the
\* incoming order's owner at the front of the best opposite level, the
\* passive is removed from its level and from the id index and its slot is
\* released, no trade is emitted for it, and the call goes on to its end;
\* an incoming GTC that found no other counterparty rests on its own side.
SelfTradePrevented ==
    (IsAddOrder(last) /\ last.arg.type \notin {"FOK", "STOP_LOSS"}
       /\ last.stp # << >>)
       => /\ halted = "none"
          /\ \A i \in 1..Len(last.stp) :
                /\ last.stp[i] \notin DOMAIN orders_
                /\ \A q \in Queued : pool_[q].id # last.stp[i]
                /\ \A j \in 1..Len(trades) : ~Names(trades[j], last.stp[i])
          /\ (last.arg.type = "GTC" /\ trades = << >>)
                => RestsOnSide(last.id, last.arg.side)

\* a price level of the side holding at least one order that rests: a slot
\* the id index names, of an order of that side
HoldsRestingOrder(side, level) ==
    \E q \in SeqToSet(level.mm_orders) \cup SeqToSet(level.regular_orders) :
        /\ pool_[q].id \in DOMAIN orders_
        /\ orders_[pool_[q].id] = q
        /\ pool_[q].side = side

\* C28: after every add_order and cancel_order call that returns, no
\* price level of bids_ or asks_ is empty and the best level of each side,
\* whose price best_bid() and best_ask() return, holds a resting order
NoEmptyLevel ==
    (halted = "none" /\ last.op \in {"add_order", "cancel_order"})
       => /\ \A p \in DOMAIN bids_ : ~PriceLevel_empty(bids_[p])
          /\ \A p \in DOMAIN asks_ : ~PriceLevel_empty(asks_[p])
          /\ bids_ # EmptyMap => HoldsRestingOrder("BUY", bids_[BestKey(State, "BUY")])
          /\ asks_ # EmptyMap => HoldsRestingOrder("SELL", asks_[BestKey(State, "SELL")])

\* the stop prices at which the stop with the given id waited on a side of
\* the stop book before the call, and its place in the bucket at key
WaitedAt(id, side) ==
    IF id \notin DOMAIN last.before.stop_lookup_ THEN {}
    ELSE {k \in DOMAIN StopsOf(last.before, side) :
             last.before.stop_lookup_[id] \in SeqToSet(StopsOf(last.before, side)[k])}

PlaceInBucket(id, side, key) ==
    FindIndex(StopsOf(last.before, side)[key], last.before.stop_lookup_[id])

\* stop a is emitted before stop b by the stated rule: on the buy side the
\* lower stop price first, on the sell side the higher one, and within one
\* bucket the earlier arrival
EmittedBefore(a, b, side) ==
    \A ka \in WaitedAt(a, side) : \A kb \in WaitedAt(b, side) :
        \/ (side = "BUY" /\ ka < kb)
        \/ (side = "SELL" /\ ka > kb)
        \/ (ka = kb /\ PlaceInBucket(a, side, ka) < PlaceInBucket(b, side, kb))

\* C29: the stops that one add_order call executes are executed with buy
\* stops in ascending order of stop_price, sell stops in descending order
\* of stop_price, and stops of one stop_price in their arrival order
StopsEmittedInOrder ==
    IsAddOrder(last)
       => \A i, j \in 1..Len(last.executed_stops) : \A side \in Sides :
             i < j => EmittedBefore(last.executed_stops[i],
                                    last.executed_stops[j], side)

\* the order add_order hands to check_order for the call
CheckedOrder(call) ==
    [side |-> call.arg.side, price |-> CheckedPrice(call),
     quantity |-> call.arg.qty, type |-> call.arg.type,
     ownerID |-> call.arg.ownerID]

\* the checks made once the trader's limits are found, in the stated
\* order, each with whether it fails on the risk manager's state s and
\* the rejection it stands for
ChecksOf(s, o) ==
    LET pos == PositionOf(s.positions_, o.ownerID)
        limit == s.trader_limits_[o.ownerID]
        newpos == IF o.side = "BUY" THEN pos.quantity + o.quantity
                  ELSE pos.quantity - o.quantity
    IN << <<Abs(newpos) > limit.max_position, "REJECTED_POSITION_LIMIT">>,
          <<o.quantity > limit.max_order_qty, "REJECTED_ORDER_SIZE">>,
          <<o.price * o.quantity > limit.max_order_value, "REJECTED_ORDER_SIZE">>,
          <<s.last_trade_price_ > 0 /\ o.price > 0
              /\ DeviationExceeds(o.price, s.last_trade_price_,
                                  limit.max_price_deviation),
            "REJECTED_FAT_FINGER">>,
          <<pos.realized_pnl + pos.unrealized_pnl < -limit.daily_loss_limit,
            "REJECTED_LOSS_LIMIT">>,
          <<is_rate_limited(s, o.ownerID).limited, "REJECTED_RATE_LIMIT">>,
          <<should_halt_trading(s, o.price).halt, "REJECTED_CIRCUIT_BREAKER">> >>

\* the rejection of the first check of the list that fails
FirstFailure(checks) ==
    IF \A i \in 1..Len(checks) : ~checks[i][1] THEN "APPROVED"
    ELSE checks[CHOOSE i \in 1..Len(checks) :
                   checks[i][1] /\ \A j \in 1..(i - 1) : ~checks[j][1]][2]

\* what the stated order of checks gives for order o on state s
StatedResult(s, o) ==
    IF o.type = "STOP_LOSS" THEN "APPROVED"
    ELSE IF o.ownerID \notin DOMAIN s.trader_limits_ THEN "REJECTED_POSITION_LIMIT"
    ELSE FirstFailure(ChecksOf(s, o))

\* C30: the result of check_order for the order of an add_order call is
\* APPROVED for a STOP_LOSS order, REJECTED_POSITION_LIMIT for a trader
\* without limits, and otherwise the rejection of the first failing check
\* in the order position limit, order quantity, order value, fat finger,
\* loss limit, rate limit, circuit breaker, APPROVED when none fails
ChecksInFixedOrder ==
    [][(IsAddOrder(last') /\ calls' = calls + 1 /\ halted' # "crash")
          => last'.risk = StatedResult([State EXCEPT !.clock = clock'],
                                       CheckedOrder(last'))]_vars

\* an order of a trader with limits that fails the position limit, the
\* order quantity and value checks, the fat-finger check and the breaker
\* was rejected for the position limit
SeveralChecksFailed ==
    /\ IsAddOrder(last)
    /\ last.arg.ownerID \in DOMAIN trader_limits_
    /\ last.arg.qty > DEMO_MAX_POSITION
    /\ last.risk = "REJECTED_POSITION_LIMIT"

\* the call's order got as far as the rate check
ReachedRateCheck(call) ==
    /\ IsAddOrder(call)
    /\ call.arg.type # "STOP_LOSS"
    /\ call.risk \in {"APPROVED", "REJECTED_RATE_LIMIT", "REJECTED_CIRCUIT_BREAKER"}

\* the timestamps of window q that are no older than one second at now
NoOlderThanASecond(q, now) == SelectSeq(q, LAMBDA t : now - t <= ONE_SECOND)

\* the window of a trader in the map m, empty for a trader without entry
WindowOf(m, trader) == IF trader \in DOMAIN m THEN m[trader] ELSE << >>

\* C31: an order reaching the rate check when its trader's window holds
\* max_orders_per_sec timestamps no older than one second is rejected with
\* REJECTED_RATE_LIMIT and not recorded; otherwise it is not rejected for
\* the rate, its time is recorded and the older timestamps are dropped;
\* so the window never holds more than max_orders_per_sec timestamps of
\* one second
RateWindowAdmits ==
    [][(ReachedRateCheck(last') /\ calls' = calls + 1 /\ halted' # "crash")
          => LET trader == last'.arg.ownerID
                 fresh == NoOlderThanASecond(WindowOf(rate_limits_, trader), clock')
                 after == WindowOf(rate_limits_', trader)
                 max == trader_limits_[trader].max_orders_per_sec
             IN /\ IF Len(fresh) >= max
                   THEN /\ last'.risk = "REJECTED_RATE_LIMIT"
                        /\ NoOlderThanASecond(after, clock') = fresh
                   ELSE /\ last'.risk # "REJECTED_RATE_LIMIT"
                        /\ after = Append(fresh, clock')
                /\ Len(NoOlderThanASecond(after, clock')) <= max]_vars

\* an order was rejected for the rate by a window that had dropped the
\* timestamps of more than a second ago
RejectedByAFreshWindow ==
    /\ IsAddOrder(last)
    /\ last.risk = "REJECTED_RATE_LIMIT"
    /\ WindowOf(rate_limits_, last.arg.ownerID) # << >>
    /\ WindowOf(rate_limits_, last.arg.ownerID)[1] > ONE_SECOND

\* m is the multiple of tick nearest to price, the upper one of two
\* equally near
NearestMultiple(m, price, tick) ==
    /\ m >= 0
    /\ m % tick = 0
    /\ 2 * Abs(m - price) <= tick
    /\ (2 * Abs(m - price) = tick) => m > price

\* C32: round_to_tick(p) is 0 when p <= 0 or p lies in no band of the
\* table; otherwise it is the multiple of the tick of p's band nearest to
\* p, ties rounded up; and a result that is not 0 is rounded to itself
RoundsToNearestTick ==
    (last.op = "round_to_tick" /\ halted = "none")
       => LET tick == get_tick_size(rules_, last.price) IN
          /\ IF tick = 0 THEN last.result = 0
             ELSE NearestMultiple(last.result, last.price, tick)
          /\ last.result # 0
                => \A again \in RoundOutcomes(rules_, last.result) :
                      again = last.result

\* some price lies in both bands
BandsMeet(a, b) ==
    (IF a[1] > b[1] THEN a[1] ELSE b[1]) <= (IF a[2] < b[2] THEN a[2] ELSE b[2])

\* the bands of the table are sorted by min_price and no two of them meet
SortedAndDisjoint(rules) ==
    \A i, j \in 1..Len(rules) :
        i < j => rules[i][1] < rules[j][1] /\ ~BandsMeet(rules[i], rules[j])

\* C33: add_rule throws for a band that meets a band of the table, for a
\* band with min_price > max_price and for a tick size that is not
\* positive; when it throws the table is as it was; when it does not the
\* table holds the former bands and the new one; and the bands of the
\* table are always sorted by min_price and pairwise disjoint
BandsSortedAndDisjoint ==
    /\ SortedAndDisjoint(rules_)
    /\ last.op = "add_rule"
          => /\ (\/ last.rule[1] > last.rule[2]
                 \/ last.rule[3] <= 0
                 \/ \E i \in 1..Len(last.before) :
                       BandsMeet(last.before[i], last.rule))
                   => last.threw
             /\ last.threw => rules_ = last.before
             /\ ~last.threw
                   => SeqToSet(rules_) = SeqToSet(last.before) \cup {last.rule}

\* a band was added to the constructed table and sorted before the
\* default bands
BandAddedInFront ==
    /\ last.op = "add_rule"
    /\ ~last.threw
    /\ Len(rules_) > Len(DefaultRules)
    /\ rules_[1] = last.rule

\* how many entries of the level queues of a book, or of the buckets of a
\* side of the stop manager, are the slot q
TimesQueuedIn(book, q) ==
    LET Times(list) == Cardinality({i \in 1..Len(list) : list[i] = q})
        RECURSIVE Sum(_)
        Sum(keys) == IF keys = {} THEN 0
                     ELSE LET k == CHOOSE x \in keys : TRUE
                          IN Times(book[k].mm_orders) + Times(book[k].regular_orders)
                             + Sum(keys \ {k})
    IN Sum(DOMAIN book)

TimesPendingIn(stops, q) ==
    LET RECURSIVE Sum(_)
        Sum(keys) == IF keys = {} THEN 0
                     ELSE LET k == CHOOSE x \in keys : TRUE
                          IN Cardinality({i \in 1..Len(stops[k]) : stops[k][i] = q})
                             + Sum(keys \ {k})
    IN Sum(DOMAIN stops)

\* the slots in the buckets of the stop manager
Pending ==
    UNION {SeqToSet(buy_stops_[k]) : k \in DOMAIN buy_stops_}
    \cup UNION {SeqToSet(sell_stops_[k]) : k \in DOMAIN sell_stops_}

\* the order in slot q is in the level of its own price on its own side,
\* or in the stop bucket of its own stop price on its own side
AtItsOwnPlace(q) ==
    LET o == pool_[q] IN
    IF o.type = "STOP_LOSS"
    THEN /\ o.stop_price \in DOMAIN StopsOf(State, o.side)
         /\ q \in SeqToSet(StopsOf(State, o.side)[o.stop_price])
    ELSE /\ o.price \in DOMAIN BookOf(State, o.side)
         /\ q \in SeqToSet(BookOf(State, o.side)[o.price].mm_orders)
                   \cup SeqToSet(BookOf(State, o.side)[o.price].regular_orders)

\* C34: after every add_order and cancel_order call that returns, made by
\* a caller that gives every order a new id, each order of the id index is
\* in exactly one level queue or stop bucket, the one of its own price on
\* its own side, every queued or pending order is indexed under its id,
\* and the index has as many entries as there are resting and pending
\* orders
IndexConsistent ==
    (halted = "none" /\ last.op \in {"add_order", "cancel_order"})
       => /\ \A id \in DOMAIN orders_ :
                /\ pool_[orders_[id]].id = id
                /\ TimesQueuedIn(bids_, orders_[id]) + TimesQueuedIn(asks_, orders_[id])
                      + TimesPendingIn(buy_stops_, orders_[id])
                      + TimesPendingIn(sell_stops_, orders_[id]) = 1
                /\ AtItsOwnPlace(orders_[id])
          /\ \A q \in Queued \cup Pending :
                /\ pool_[q].id \in DOMAIN orders_
                /\ orders_[pool_[q].id] = q
          /\ Cardinality(DOMAIN orders_)
                = Cardinality(Queued) + Cardinality(DOMAIN stop_lookup_)

\* the slots the id index and the stop manager's lookup refer to
Indexed ==
    {orders_[id] : id \in DOMAIN orders_}
    \cup {stop_lookup_[id] : id \in DOMAIN stop_lookup_}

\* C35: after every add_order and cancel_order call that returns, the
\* pool's allocated_count_ is the number of entries of the id index, and
\* no slot referred to by a price level, a stop bucket or the id index is
\* on the pool's stack of free slots
NoLeakNoDangling ==
    (halted = "none" /\ last.op \in {"add_order", "cancel_order"})
       => /\ allocated_count_ = Cardinality(DOMAIN orders_)
          /\ \A q \in Queued \cup Pending \cup Indexed :
                q \notin SeqToSet(available_)

\* the resting orders of the level: the slots of its queues that the id
\* index names
RestingIn(level) ==
    {q \in SeqToSet(level.mm_orders) \cup SeqToSet(level.regular_orders) :
        pool_[q].id \in DOMAIN orders_ /\ orders_[pool_[q].id] = q}

NoOverfill ==
    /\ (IsAddOrder(last) /\ last.risk = "APPROVED")
          => /\ FilledOf(last.id) <= last.arg.qty
             /\ \A i \in 1..Len(last.released) :
                   last.released[i].filled <= last.released[i].quantity
    /\ \A id \in DOMAIN orders_ :
          pool_[orders_[id]].id = id => FilledOf(id) <= pool_[orders_[id]].quantity

\* C38.  Every trade a call of add_order returns has a quantity above zero,
\* whichever path made it: the limit path, the MARKET path, the commit of a
\* FOK order, or a stop the call triggered.  A call that never returns
\* (halted = "hang") returns no trade.
TradesArePositive ==
    (IsAddOrder(last) /\ halted = "none")
       => \A i \in 1..Len(trades) : trades[i].quantity > 0

\* C39.  The position limit is effective: after every call, every trader
\* with configured limits holds a position whose size, long or short, is at
\* most the trader's max_position.
PositionWithinLimit ==
    \A t \in DOMAIN trader_limits_ :
       t \in DOMAIN positions_
          => Abs(positions_[t].quantity) <= trader_limits_[t].max_position

\* the owner of the buying and of the selling order of a trade, as
\* execute_trade read them
BuyerOf(trade) ==
    IF trade.aggr_side = "BUY" THEN trade.aggr_owner ELSE trade.pass_owner

SellerOf(trade) ==
    IF trade.aggr_side = "SELL" THEN trade.aggr_owner ELSE trade.pass_owner

\* what the trades of a list add to the position of trader t
RECURSIVE BoughtLessSold(_, _)
BoughtLessSold(ts, t) ==
    IF ts = << >> THEN 0
    ELSE (IF BuyerOf(Head(ts)) = t THEN Head(ts).quantity ELSE 0)
         - (IF SellerOf(Head(ts)) = t THEN Head(ts).quantity ELSE 0)
         + BoughtLessSold(Tail(ts), t)

RECURSIVE NetPosition(_, _)
NetPosition(ps, ts) ==
    IF ts = {} THEN 0
    ELSE LET t == SetMin(ts) IN ps[t].quantity + NetPosition(ps, ts \ {t})

PositionQty(ps, t) == IF t \in DOMAIN ps THEN ps[t].quantity ELSE 0

\* C40.  Position bookkeeping is balanced: a call that returns moves every
\* trader's position by what the trades it returned bought less what they
\* sold for that trader, the positions of all traders sum to zero, and the
\* last trade price is the price of the last trade returned (unchanged when
\* the call returned none).
PositionsBalanced ==
    [][halted' = "none"
       => /\ \A t \in DOMAIN positions_' :
                PositionQty(positions_', t)
                   = PositionQty(positions_, t) + BoughtLessSold(trades', t)
          /\ NetPosition(positions_', DOMAIN positions_') = 0
          /\ last_trade_price_' = IF trades' = << >> THEN last_trade_price_
                                  ELSE trades'[Len(trades')].price]_vars

\* a call has returned two trades at different prices that left traders
\* with positions
TwoTradesMovedPositions ==
    /\ IsAddOrder(last)
    /\ halted = "none"
    /\ Len(trades) >= 2
    /\ trades[1].price # trades[Len(trades)].price
    /\ \E t \in DOMAIN positions_ : positions_[t].quantity # 0

====
